---------------------------- MODULE Spec2Model ----------------------------
(***************************************************************************)
(* A model of reefer (skyler14/reefer): the in-memory expiring store       *)
(* (src/server/storage.ts), the Express endpoint adapter                   *)
(* (src/server/middleware.ts) and the reference-state manager              *)
(* (src/core.ts).                                                          *)
(*                                                                         *)
(* Strings are sequences of one-character strings, so that prefixes,       *)
(* substring(2) and URL escaping act on characters.  Time is counted in    *)
(* whole days: the platform timer's largest delay, 2^31-1 ms, is then 24   *)
(* units, and a delay the platform replaces by 1 ms is 0 units.            *)
(*                                                                         *)
(* SpecStore runs the store under direct calls, the clock and its timers.  *)
(* Spec runs the manager: a call runs to its await of fetch, the fetch     *)
(* settles with any answer an endpoint or the network can give, and the    *)
(* call resumes from it.                                                   *)
(* SpecServer runs the endpoint over its store, SpecIds the generation of  *)
(* reference ids, SpecEvents and SpecLifecycle a manager whose fetches the *)
(* endpoint answers, SpecRace the store under racing callers, SpecAdapters *)
(* two endpoint adapters, SpecBrowser the page-state methods in a browser, *)
(* SpecObservers the event handlers of a manager.                          *)
(***************************************************************************)
EXTENDS Integers, Sequences, FiniteSets, TLC

VARIABLES
    now,         \* Date.now()
    storage,     \* MemoryStorage.storage : Map<id, record>
    timers,      \* MemoryStorage.timers  : Map<id, timer handle>
    pending,     \* the platform's armed timers : handle -> [id, due]
    nextHandle,  \* the next timer handle setTimeout returns
    writer,      \* history: id -> handle armed by the set that wrote the record
    obs,         \* the last store operation and what it returned
    handlers,    \* RefStateManager.eventHandlers.get(ERROR) : Set<handler>
    expireHandlers, \* RefStateManager.eventHandlers.get(EXPIRE) : Set<handler>
    changeHandlers, \* RefStateManager.eventHandlers.get(CHANGE) : Set<handler>
    promises,    \* the results of get calls their callers have not taken yet
    location,    \* window.location.search: the 'refstate' parameter as written
    localStorage, \* localStorage's item 'refstate'
    call         \* the last call of the manager and its outcome

storeVars == <<now, storage, timers, pending, nextHandle, writer>>
vars == <<now, storage, timers, pending, nextHandle, writer, obs, handlers,
         expireHandlers, changeHandlers, promises, location, localStorage, call>>

-----------------------------------------------------------------------------
(* Bounds of the model *)

MaxTime == 2        \* the clock stops advancing here
MaxTimers == 2      \* setTimeout calls in one behaviour
MaxLen == 2         \* identifiers in one list
MaxClientDocs == 1  \* options.maxClientDocs of the modelled manager
MaxPromises == 1    \* get calls whose results are in flight at once

-----------------------------------------------------------------------------
(* Maps (JavaScript Map): functions with a dynamic domain *)

EmptyMap == <<>>

MapHas(m, k) == k \in DOMAIN m

MapSet(m, k, v) == [x \in (DOMAIN m) \cup {k} |-> IF x = k THEN v ELSE m[x]]

MapDelete(m, k) == [x \in (DOMAIN m) \ {k} |-> m[x]]

Null == [null |-> TRUE]

MapGet(m, k) == IF k \in DOMAIN m THEN m[k] ELSE Null

-----------------------------------------------------------------------------
(* The platform timer *)

\* 2^31-1 ms in whole days
TIMEOUT_MAX == 2147483647 \div 86400000

\* setTimeout(cb, delay): a delay above TIMEOUT_MAX (or below 1) is replaced by
\* 1 ms, which is 0 of the model's units
TimerDelay(delay) == IF delay > TIMEOUT_MAX \/ delay < 1 THEN 0 ELSE delay

\* clearTimeout(h): disarms h; a handle that fired or was cleared is ignored
ClearTimeout(p, h) == MapDelete(p, h)

-----------------------------------------------------------------------------
(* MemoryStorage: operations on st = [storage, timers, pending, nextHandle, writer] *)

StoreState ==
    [storage |-> storage, timers |-> timers, pending |-> pending,
     nextHandle |-> nextHandle, writer |-> writer]

EmptyStore ==
    [storage |-> EmptyMap, timers |-> EmptyMap, pending |-> EmptyMap,
     nextHandle |-> 1, writer |-> EmptyMap]

\* set without clearing the timer of the record it overwrites
MemSetKeepOldTimer(st, id, data, expireIn, t) ==
    [storage |-> MapSet(st.storage, id, [data |-> data, expiresAt |-> t + expireIn]),
     timers |-> MapSet(st.timers, id, st.nextHandle),
     pending |-> MapSet(st.pending, st.nextHandle,
                        [id |-> id, due |-> t + TimerDelay(expireIn)]),
     nextHandle |-> st.nextHandle + 1,
     writer |-> MapSet(st.writer, id, st.nextHandle)]

\* async set(id, data, expireIn) at time t
MemSet(st, id, data, expireIn, t) ==
    LET cleared == IF MapHas(st.timers, id)
                   THEN ClearTimeout(st.pending, st.timers[id])
                   ELSE st.pending
    IN  [storage |-> MapSet(st.storage, id, [data |-> data, expiresAt |-> t + expireIn]),
         timers |-> MapSet(st.timers, id, st.nextHandle),
         pending |-> MapSet(cleared, st.nextHandle,
                            [id |-> id, due |-> t + TimerDelay(expireIn)]),
         nextHandle |-> st.nextHandle + 1,
         writer |-> MapSet(st.writer, id, st.nextHandle)]

\* delete that leaves the entry of the timers map behind
MemDeleteKeepTimerEntry(st, id) ==
    [st EXCEPT !.storage = MapDelete(st.storage, id),
               !.pending = IF MapHas(st.timers, id)
                           THEN ClearTimeout(st.pending, st.timers[id])
                           ELSE st.pending]

\* async delete(id)
MemDelete(st, id) ==
    [st EXCEPT !.storage = MapDelete(st.storage, id),
               !.timers = MapDelete(st.timers, id),
               !.pending = IF MapHas(st.timers, id)
                           THEN ClearTimeout(st.pending, st.timers[id])
                           ELSE st.pending]

\* async get(id) at time t: [ret, st]
MemGet(st, id, t) ==
    LET data == MapGet(st.storage, id)
    IN  IF data = Null THEN [ret |-> Null, st |-> st]
        ELSE IF data.expiresAt < t THEN [ret |-> Null, st |-> MemDelete(st, id)]
        ELSE [ret |-> data, st |-> st]

\* async has(id)
MemHas(st, id) == MapHas(st.storage, id)

\* a callback that blanks the record and leaves it in the map
TimerCallbackBlanking(st, h) ==
    LET id == st.pending[h].id
    IN  [st EXCEPT !.pending = MapDelete(st.pending, h),
                   !.timers = MapDelete(st.timers, id),
                   !.storage = IF MapHas(st.storage, id)
                               THEN MapSet(st.storage, id,
                                           [data |-> Null,
                                            expiresAt |-> st.storage[id].expiresAt])
                               ELSE st.storage]

\* the callback armed by set: () => { this.delete(id) }, run when handle h fires
TimerCallback(st, h) ==
    MemDelete([st EXCEPT !.pending = MapDelete(st.pending, h)], st.pending[h].id)

-----------------------------------------------------------------------------
(* Strings *)

\* s.startsWith(p)
StartsWith(s, p) == Len(s) >= Len(p) /\ SubSeq(s, 1, Len(p)) = p

\* s.substring(n)
Substring(s, n) == SubSeq(s, n + 1, Len(s))

RECURSIVE Concat(_)
\* the strings of a list joined
Concat(ss) == IF ss = <<>> THEN <<>> ELSE Head(ss) \o Concat(Tail(ss))

\* the characters of alphabet a
Chars(a) == {a[i] : i \in 1..Len(a)}

\* the position of each character of alphabet a
Positions(a) == [c \in Chars(a) |-> CHOOSE i \in 1..Len(a) : a[i] = c]

Failure == [ok |-> FALSE]

Success(v) == [ok |-> TRUE, value |-> v]

-----------------------------------------------------------------------------
(* JSON of a ClientRefState, with one-letter keys:                          *)
(*   { d [ "a" , "b" ] t 0 c n "x" }                                        *)

Digits == <<"0", "1", "2", "3", "4", "5", "6", "7", "8", "9">>

RECURSIVE StringifyItems(_)
StringifyItems(docs) ==
    IF docs = <<>> THEN <<>>
    ELSE <<"\"", Head(docs), "\"">>
         \o (IF Tail(docs) = <<>> THEN <<>> ELSE <<",">>)
         \o StringifyItems(Tail(docs))

\* JSON.stringify(payload); a name that is undefined is left out
JSONStringify(payload) ==
    <<"{", "d", "[">> \o StringifyItems(payload.docs) \o <<"]">>
    \o <<"t", Digits[payload.timestamp + 1]>>
    \o <<"c">>
    \o (IF payload.name = <<>> THEN <<>> ELSE <<"n", "\"">> \o payload.name \o <<"\"">>)
    \o <<"}">>

RECURSIVE ParseItems(_, _, _)
\* the items of an array from position i on: [ok, docs, next], next after "]"
ParseItems(s, i, acc) ==
    IF i > Len(s) THEN [ok |-> FALSE]
    ELSE IF s[i] = "]" /\ acc = <<>> THEN [ok |-> TRUE, docs |-> acc, next |-> i + 1]
    ELSE IF i + 3 > Len(s) \/ s[i] # "\"" \/ s[i + 1] = "\"" \/ s[i + 2] # "\""
         THEN [ok |-> FALSE]
    ELSE IF s[i + 3] = "]"
         THEN [ok |-> TRUE, docs |-> Append(acc, s[i + 1]), next |-> i + 4]
    ELSE IF s[i + 3] = "," /\ i + 4 <= Len(s) /\ s[i + 4] = "\""
         THEN ParseItems(s, i + 4, Append(acc, s[i + 1]))
    ELSE [ok |-> FALSE]

\* JSON.parse(text): the docs of the payload, or a SyntaxError
JSONParse(s) ==
    IF Len(s) < 3 \/ SubSeq(s, 1, 3) # <<"{", "d", "[">> THEN Failure
    ELSE LET items == ParseItems(s, 4, <<>>)
         IN  IF ~items.ok THEN Failure
             ELSE LET rest == SubSeq(s, items.next, Len(s))
                  IN  IF /\ Len(rest) >= 4
                         /\ rest[1] = "t"
                         /\ rest[2] \in Chars(Digits)
                         /\ rest[3] = "c"
                         /\ rest[Len(rest)] = "}"
                         /\ \/ Len(rest) = 4
                            \/ /\ Len(rest) >= 7
                               /\ rest[4] = "n"
                               /\ rest[5] = "\""
                               /\ rest[Len(rest) - 1] = "\""
                      THEN Success([docs |-> items.docs])
                      ELSE Failure

-----------------------------------------------------------------------------
(* The cipher (crypto-js AES with a passphrase) as a keyed substitution:    *)
(* the ciphertext is a header character carrying the random salt, then the  *)
(* plaintext shifted by the key and the salt, in a base64 alphabet.         *)

PlainChars == <<"{", "}", "[", "]", "\"", ",", "d", "t", "c", "n", "a", "b", "x",
                "0", "1", "2", "3", "4", "5", "6", "7", "8", "9">>

Base64Chars == <<"A", "B", "C", "D", "E", "F", "G", "H", "I", "J", "K", "L", "M",
                 "N", "O", "P", "Q", "R", "S", "T", "+", "/", "=">>

KeyChars == <<"K", "s", "t">>

PlainPos == Positions(PlainChars)

Base64Pos == Positions(Base64Chars)

KeyPos == Positions(KeyChars)

RECURSIVE KeySum(_)
\* the number the cipher derives from the passphrase
KeySum(key) == IF key = <<>> THEN 0 ELSE KeyPos[Head(key)] + KeySum(Tail(key))

\* AES.encrypt(text, key).toString(), r the random salt
AESEncrypt(text, key, r) ==
    LET k == KeySum(key) + r
    IN  <<Base64Chars[r + 1]>>
        \o [i \in 1..Len(text) |->
              Base64Chars[((PlainPos[text[i]] - 1 + k) % Len(PlainChars)) + 1]]

\* AES.decrypt(ct, key).toString(Utf8): the text, or a Malformed UTF-8 error
AESDecrypt(ct, key) ==
    IF ct = <<>> \/ \E i \in 1..Len(ct) : ct[i] \notin DOMAIN Base64Pos
    THEN Failure
    ELSE LET k == 2 * Len(PlainChars) - KeySum(key) - (Base64Pos[ct[1]] - 1)
         IN  Success([i \in 1..(Len(ct) - 1) |->
                 PlainChars[((Base64Pos[ct[i + 1]] - 1 + k) % Len(PlainChars)) + 1]])

-----------------------------------------------------------------------------
(* URL escaping *)

Escapes == << <<"+", <<"%", "2", "B">> >>, <<"/", <<"%", "2", "F">> >>,
              <<"=", <<"%", "3", "D">> >>, <<":", <<"%", "3", "A">> >>,
              <<"%", <<"%", "2", "5">> >> >>

\* character -> its escape
EscapeOf == [c \in {Escapes[i][1] : i \in 1..Len(Escapes)} |->
               (CHOOSE e \in Chars(Escapes) : e[1] = c)[2]]

\* escape -> its character
UnescapeOf == [q \in {Escapes[i][2] : i \in 1..Len(Escapes)} |->
                 (CHOOSE e \in Chars(Escapes) : e[2] = q)[1]]

\* encodeURIComponent(s)
EncodeURIComponent(s) ==
    Concat([i \in 1..Len(s) |-> IF s[i] \in DOMAIN EscapeOf THEN EscapeOf[s[i]]
                                ELSE <<s[i]>>])

RECURSIVE DecodeFrom(_, _, _)
DecodeFrom(s, i, acc) ==
    IF i > Len(s) THEN Success(acc)
    ELSE IF s[i] # "%" THEN DecodeFrom(s, i + 1, Append(acc, s[i]))
    ELSE IF i + 2 > Len(s) \/ SubSeq(s, i, i + 2) \notin DOMAIN UnescapeOf THEN Failure
    ELSE DecodeFrom(s, i + 3, Append(acc, UnescapeOf[SubSeq(s, i, i + 2)]))

\* decodeURIComponent(s): the string, or a URIError
DecodeURIComponent(s) == DecodeFrom(s, 1, <<>>)

-----------------------------------------------------------------------------
(* Inputs of the store's callers *)

StoreIds == {<<"p">>, <<"q">>}

DocLists == {<<"a">>, <<"b">>}

StoreData == {[documentIds |-> d, name |-> <<"U">>, createdAt |-> 0, salt |-> FALSE]
              : d \in DocLists}

TTLs == {1, 2, 30}

-----------------------------------------------------------------------------
(* The endpoint adapter: createRefStateMiddleware's two routes over its store *)

\* DEFAULT_SERVER_OPTIONS.defaultExpiration: 7 days
DefaultExpiration == 7

\* the default of name in the create route
Unnamed == <<"U">>

\* generateReferenceId: the ids the random source can produce
GenerateReferenceId == StoreIds

\* DEFAULT_SERVER_OPTIONS.refKeyFormat
RefKeyFormat == "string"

\* an optional value of a request or of the options: absent, or given as v
Absent == <<>>

Given(v) == <<v>>

\* a destructuring default: the default applies to an absent value only
OrDefault(opt, default) == IF opt = Absent THEN default ELSE opt[1]

\* the documentIds of a request body: an array, another JSON value, or absent
ArrayOf(items) == [kind |-> "array", items |-> items]

NotAnArray == [kind |-> "string", items |-> <<>>]

NoDocumentIds == [kind |-> "undefined", items |-> <<>>]

\* Array.isArray
IsArray(v) == v.kind = "array"

\* router.post(basePath) that stores whatever array it is given
PostHandlerAnyArray(st, body, t, referenceId) ==
    LET salt == OrDefault(body.salt, FALSE)
        name == OrDefault(body.name, Unnamed)
        idFormat == OrDefault(body.idFormat, RefKeyFormat)
        given == body.expireIn # Absent /\ body.expireIn[1] # 0
        expirationTime == IF given THEN body.expireIn[1] ELSE DefaultExpiration
    IN  IF ~IsArray(body.documentIds)
        THEN [status |-> 400, body |-> Null, st |-> st, generated |-> FALSE,
              format |-> "", useSalt |-> FALSE]
        ELSE [status |-> 200,
              body |-> [referenceId |-> referenceId, expiresAt |-> t + expirationTime],
              st |-> MemSet(st, referenceId,
                            [documentIds |-> body.documentIds.items, name |-> name,
                             createdAt |-> t, salt |-> salt],
                            expirationTime, t),
              generated |-> TRUE, format |-> idFormat, useSalt |-> salt]

\* router.post(basePath) at time t; referenceId is what generateReferenceId
\* (idFormat, salt) returns when it is called
PostHandler(st, body, t, referenceId) ==
    LET salt == OrDefault(body.salt, FALSE)
        name == OrDefault(body.name, Unnamed)
        idFormat == OrDefault(body.idFormat, RefKeyFormat)
        given == body.expireIn # Absent /\ body.expireIn[1] # 0
        expirationTime == IF given THEN body.expireIn[1] ELSE DefaultExpiration
    IN  IF ~IsArray(body.documentIds) \/ Len(body.documentIds.items) = 0
        THEN [status |-> 400, body |-> Null, st |-> st, generated |-> FALSE,
              format |-> "", useSalt |-> FALSE]
        ELSE [status |-> 200,
              body |-> [referenceId |-> referenceId, expiresAt |-> t + expirationTime],
              st |-> MemSet(st, referenceId,
                            [documentIds |-> body.documentIds.items, name |-> name,
                             createdAt |-> t, salt |-> salt],
                            expirationTime, t),
              generated |-> TRUE, format |-> idFormat, useSalt |-> salt]

\* router.get(basePath/:id) at time t
GetHandler(st, id, t) ==
    LET r == MemGet(st, id, t)
    IN  IF r.ret = Null
        THEN [status |-> 404, body |-> Null, st |-> r.st]
        ELSE [status |-> 200,
              body |-> [documentIds |-> r.ret.data.documentIds, name |-> r.ret.data.name,
                        createdAt |-> r.ret.data.createdAt, expiresAt |-> r.ret.expiresAt],
              st |-> r.st]

\* what fetch() settles with: a rejection (the request or its answer is lost), or
\* a response with a status and a body that parses as JSON or does not
NoResponse ==
    [kind |-> "none", status |-> 0, readable |-> FALSE, referenceId |-> <<>>,
     documentIds |-> <<>>]

Rejected == [NoResponse EXCEPT !.kind = "rejected"]

\* a response without a usable body: an error status, or a body that is not JSON
Answer(status) == [NoResponse EXCEPT !.kind = "response", !.status = status]

\* the create route's 200 answer
Created(referenceId) ==
    [NoResponse EXCEPT !.kind = "response", !.status = 200, !.readable = TRUE,
                       !.referenceId = referenceId]

\* the lookup route's 200 answer
Found(documentIds) ==
    [NoResponse EXCEPT !.kind = "response", !.status = 200, !.readable = TRUE,
                       !.documentIds = documentIds]

\* response.ok
Ok(resp) == resp.status >= 200 /\ resp.status <= 299

-----------------------------------------------------------------------------
(* RefStateManager *)

\* DEFAULT_OPTIONS.encryptionKey
EncryptionKey == <<"K">>

\* getEncryptionKey(salt)
GetEncryptionKey(salt) == EncryptionKey \o salt

\* the handlers whose function throws when it is invoked
Throwers == {"h2"}

\* emitEvent without the try around the handler: the first handler that throws
\* ends the forEach
EmitEventUncaught(hs, errType) ==
    LET throwing == {i \in 1..Len(hs) : hs[i] \in Throwers}
        last == IF throwing = {} THEN Len(hs)
                ELSE CHOOSE i \in throwing : \A j \in throwing : i <= j
    IN  [i \in 1..last |-> [handler |-> hs[i], error |-> errType]]

\* emitEvent(ERROR, error): one invocation per registered handler, in the
\* order of registration; what a handler throws is caught and logged
EmitEvent(hs, errType) == [i \in 1..Len(hs) |-> [handler |-> hs[i], error |-> errType]]

RECURSIVE EmitAll(_, _)
\* the invocations of a call that emitted the errors es, in order
EmitAll(hs, es) == IF es = <<>> THEN <<>>
                   ELSE EmitEvent(hs, Head(es)) \o EmitAll(hs, Tail(es))

\* createClientRefState that encrypts under the bare secret, without the salt
CreateClientRefStateNoSalt(docIds, salt, name, t, r, cipherFault) ==
    IF cipherFault
    THEN [outcome |-> "thrown", value |-> <<>>, errType |-> "encryption",
          events |-> <<"encryption">>]
    ELSE [outcome |-> "returned",
          value |-> <<"c", ":">> \o EncodeURIComponent(AESEncrypt(
                        JSONStringify([docs |-> docIds, timestamp |-> t,
                                       client |-> TRUE, name |-> name]),
                        EncryptionKey, r)),
          errType |-> "", events |-> <<>>]

\* createClientRefState(docIds, salt, name) at time t; r is the cipher's random
\* salt, cipherFault an encryption that throws
CreateClientRefState(docIds, salt, name, t, r, cipherFault) ==
    IF cipherFault
    THEN [outcome |-> "thrown", value |-> <<>>, errType |-> "encryption",
          events |-> <<"encryption">>]
    ELSE [outcome |-> "returned",
          value |-> <<"c", ":">> \o EncodeURIComponent(AESEncrypt(
                        JSONStringify([docs |-> docIds, timestamp |-> t,
                                       client |-> TRUE, name |-> name]),
                        GetEncryptionKey(salt), r)),
          errType |-> "", events |-> <<>>]

\* 'Unnamed Selection'
UnnamedSelection == <<"U", "S">>

\* the body createServerRefState posts: the salt itself is not sent, an
\* expireIn that is undefined is dropped by JSON.stringify, and idFormat is not
\* among the keys
CreateBody(docIds, options) ==
    [documentIds |-> ArrayOf(docIds),
     salt |-> Given(options.salt # <<>>),
     name |-> Given(IF options.name # <<>> THEN options.name ELSE UnnamedSelection),
     expireIn |-> options.expireIn,
     idFormat |-> Absent]

\* createServerRefState that throws without emitting the ERROR event
CreateServerRefStateSilent(docIds, options, resp) ==
    IF resp.kind = "rejected" \/ ~Ok(resp) \/ ~resp.readable
    THEN [outcome |-> "thrown", value |-> <<>>, errType |-> "network",
          events |-> <<>>]
    ELSE [outcome |-> "returned", value |-> <<"s", ":">> \o resp.referenceId,
          errType |-> "", events |-> <<>>]

\* createServerRefState(docIds, options) once its fetch has settled with resp: a
\* rejection, a non-OK status or an unreadable body ends in the catch, which
\* emits ERROR and throws NETWORK
CreateServerRefState(docIds, options, resp) ==
    IF resp.kind = "rejected" \/ ~Ok(resp) \/ ~resp.readable
    THEN [outcome |-> "thrown", value |-> <<>>, errType |-> "network",
          events |-> <<"network">>]
    ELSE [outcome |-> "returned", value |-> <<"s", ":">> \o resp.referenceId,
          errType |-> "", events |-> <<>>]

\* options.serverSync, true when it is not given
ServerSync(options) == options.serverSync # "false"

\* a call suspended at its await of fetch
Pending(lookup) ==
    [outcome |-> "pending", value |-> <<>>, errType |-> "", events |-> <<>>,
     contacted |-> TRUE, fallback |-> FALSE, lookup |-> lookup, decrypted |-> Null]

\* the outcome of a create call that took the path given by the flags
CreateOutcome(res, contacted, fallback, events) ==
    [outcome |-> res.outcome, value |-> res.value, errType |-> res.errType,
     events |-> events, contacted |-> contacted, fallback |-> fallback,
     lookup |-> Null, decrypted |-> Null]

\* createRefState with the threshold on the server's side: >= maxClientDocs
CreateRefStateInclusive(docIds, options, resp, t, r, cipherFault) ==
    IF ServerSync(options) /\ Len(docIds) >= MaxClientDocs
    THEN IF resp = NoResponse THEN Pending(Null)
         ELSE LET server == CreateServerRefState(docIds, options, resp)
              IN  IF server.outcome = "thrown"
                  THEN LET client == CreateClientRefState(docIds, options.salt,
                                         options.name, t, r, cipherFault)
                       IN  CreateOutcome(client, TRUE, TRUE, server.events \o client.events)
                  ELSE CreateOutcome(server, TRUE, FALSE, server.events)
    ELSE LET client == CreateClientRefState(docIds, options.salt, options.name,
                                            t, r, cipherFault)
         IN  CreateOutcome(client, FALSE, FALSE, client.events)

\* createRefState that lets the server path's error through
CreateRefStateNoFallback(docIds, options, resp, t, r, cipherFault) ==
    IF ServerSync(options) /\ Len(docIds) > MaxClientDocs
    THEN IF resp = NoResponse THEN Pending(Null)
         ELSE LET server == CreateServerRefState(docIds, options, resp)
              IN  CreateOutcome(server, TRUE, FALSE, server.events)
    ELSE LET client == CreateClientRefState(docIds, options.salt, options.name,
                                            t, r, cipherFault)
         IN  CreateOutcome(client, FALSE, FALSE, client.events)

\* createRefState(docIds, options) at time t: up to its await while resp is
\* NoResponse, and to its end once the fetch has settled with resp
CreateRefState(docIds, options, resp, t, r, cipherFault) ==
    IF ServerSync(options) /\ Len(docIds) > MaxClientDocs
    THEN IF resp = NoResponse THEN Pending(Null)
         ELSE LET server == CreateServerRefState(docIds, options, resp)
              IN  IF server.outcome = "thrown"
                  THEN LET client == CreateClientRefState(docIds, options.salt,
                                         options.name, t, r, cipherFault)
                       IN  CreateOutcome(client, TRUE, TRUE, server.events \o client.events)
                  ELSE CreateOutcome(server, TRUE, FALSE, server.events)
    ELSE LET client == CreateClientRefState(docIds, options.salt, options.name,
                                            t, r, cipherFault)
         IN  CreateOutcome(client, FALSE, FALSE, client.events)

\* getClientRefDocuments that lets the failure through to its caller
GetClientRefDocumentsThrowing(encryptedRef, salt) ==
    LET decoded == DecodeURIComponent(encryptedRef)
        decrypted == IF decoded.ok
                     THEN AESDecrypt(decoded.value, GetEncryptionKey(salt))
                     ELSE Failure
        parsed == IF decrypted.ok THEN JSONParse(decrypted.value) ELSE Failure
    IN  IF parsed.ok
        THEN [outcome |-> "returned", value |-> parsed.value.docs, errType |-> "",
              events |-> <<>>]
        ELSE [outcome |-> "thrown", value |-> <<>>, errType |-> "decryption",
              events |-> <<"decryption">>]

\* getClientRefDocuments(encryptedRef, salt): a failure of unescaping,
\* decryption or parsing ends in the catch, which emits DECRYPTION and returns []
GetClientRefDocuments(encryptedRef, salt) ==
    LET decoded == DecodeURIComponent(encryptedRef)
        decrypted == IF decoded.ok
                     THEN AESDecrypt(decoded.value, GetEncryptionKey(salt))
                     ELSE Failure
        parsed == IF decrypted.ok THEN JSONParse(decrypted.value) ELSE Failure
    IN  IF parsed.ok
        THEN [outcome |-> "returned", value |-> parsed.value.docs, errType |-> "",
              events |-> <<>>]
        ELSE [outcome |-> "returned", value |-> <<>>, errType |-> "",
              events |-> <<"decryption">>]

\* getServerRefDocuments that answers [] when the lookup fails
GetServerRefDocumentsLenient(referenceId, resp) ==
    IF resp.kind = "response" /\ Ok(resp) /\ resp.readable
    THEN [outcome |-> "returned", value |-> resp.documentIds, errType |-> "",
          events |-> <<>>]
    ELSE [outcome |-> "returned", value |-> <<>>, errType |-> "",
          events |-> <<"network">>]

\* getServerRefDocuments that rethrows its own RefStateError without emitting it
GetServerRefDocumentsQuietNotFound(referenceId, resp) ==
    IF resp.kind = "rejected"
    THEN [outcome |-> "thrown", value |-> <<>>, errType |-> "network",
          events |-> <<"network">>]
    ELSE IF ~Ok(resp) /\ resp.status = 404
    THEN [outcome |-> "thrown", value |-> <<>>, errType |-> "not_found",
          events |-> <<>>]
    ELSE IF ~Ok(resp) \/ ~resp.readable
    THEN [outcome |-> "thrown", value |-> <<>>, errType |-> "network",
          events |-> <<"network">>]
    ELSE [outcome |-> "returned", value |-> resp.documentIds, errType |-> "",
          events |-> <<>>]

\* getServerRefDocuments(referenceId) once its fetch has settled with resp
GetServerRefDocuments(referenceId, resp) ==
    IF resp.kind = "rejected"
    THEN [outcome |-> "thrown", value |-> <<>>, errType |-> "network",
          events |-> <<"network">>]
    ELSE IF ~Ok(resp) /\ resp.status = 404
    THEN [outcome |-> "thrown", value |-> <<>>, errType |-> "not_found",
          events |-> <<"not_found">>]
    ELSE IF ~Ok(resp) \/ ~resp.readable
    THEN [outcome |-> "thrown", value |-> <<>>, errType |-> "network",
          events |-> <<"network">>]
    ELSE [outcome |-> "returned", value |-> resp.documentIds, errType |-> "",
          events |-> <<>>]

\* the outcome of a resolve call, with the lookup it made or the text it decrypted
Resolved(res, lookup, decrypted) ==
    [outcome |-> res.outcome, value |-> res.value, errType |-> res.errType,
     events |-> res.events, contacted |-> lookup # Null, fallback |-> FALSE,
     lookup |-> lookup, decrypted |-> decrypted]

NothingSelected ==
    [outcome |-> "returned", value |-> <<>>, errType |-> "", events |-> <<>>]

\* getDocumentsFromRefState without the test for an empty token
GetDocumentsFromRefStateNoGuard(refStateToken, salt, resp) ==
    IF StartsWith(refStateToken, <<"s", ":">>)
    THEN IF resp = NoResponse THEN Pending([id |-> Substring(refStateToken, 2)])
         ELSE Resolved(GetServerRefDocuments(Substring(refStateToken, 2), resp),
                       [id |-> Substring(refStateToken, 2)], Null)
    ELSE IF StartsWith(refStateToken, <<"c", ":">>)
    THEN Resolved(GetClientRefDocuments(Substring(refStateToken, 2), salt), Null,
                  [ref |-> Substring(refStateToken, 2)])
    ELSE Resolved(GetClientRefDocuments(refStateToken, salt), Null,
                  [ref |-> refStateToken])

\* getDocumentsFromRefState that tests the first character only
GetDocumentsFromRefStateLoose(refStateToken, salt, resp) ==
    IF refStateToken = <<>> THEN Resolved(NothingSelected, Null, Null)
    ELSE IF StartsWith(refStateToken, <<"s">>)
    THEN IF resp = NoResponse THEN Pending([id |-> Substring(refStateToken, 2)])
         ELSE Resolved(GetServerRefDocuments(Substring(refStateToken, 2), resp),
                       [id |-> Substring(refStateToken, 2)], Null)
    ELSE IF StartsWith(refStateToken, <<"c">>)
    THEN Resolved(GetClientRefDocuments(Substring(refStateToken, 2), salt), Null,
                  [ref |-> Substring(refStateToken, 2)])
    ELSE Resolved(GetClientRefDocuments(refStateToken, salt), Null,
                  [ref |-> refStateToken])

\* getDocumentsFromRefState(refStateToken, salt): up to its await while resp is
\* NoResponse, and to its end once the fetch has settled with resp
GetDocumentsFromRefState(refStateToken, salt, resp) ==
    IF refStateToken = <<>> THEN Resolved(NothingSelected, Null, Null)
    ELSE IF StartsWith(refStateToken, <<"s", ":">>)
    THEN IF resp = NoResponse THEN Pending([id |-> Substring(refStateToken, 2)])
         ELSE Resolved(GetServerRefDocuments(Substring(refStateToken, 2), resp),
                       [id |-> Substring(refStateToken, 2)], Null)
    ELSE IF StartsWith(refStateToken, <<"c", ":">>)
    THEN Resolved(GetClientRefDocuments(Substring(refStateToken, 2), salt), Null,
                  [ref |-> Substring(refStateToken, 2)])
    ELSE Resolved(GetClientRefDocuments(refStateToken, salt), Null,
                  [ref |-> refStateToken])

-----------------------------------------------------------------------------
(* The store used directly *)

Install(st) ==
    /\ storage' = st.storage
    /\ timers' = st.timers
    /\ pending' = st.pending
    /\ nextHandle' = st.nextHandle
    /\ writer' = st.writer

Observe(op, id, ret, data, ttl, h) ==
    obs' = [op |-> op, id |-> id, at |-> now, ret |-> ret,
            pre |-> MapGet(storage, id), preTimer |-> MapGet(timers, id),
            preWriter |-> MapGet(writer, id),
            data |-> data, ttl |-> ttl, h |-> h]

\* no call of the manager yet
NoCall ==
    [op |-> "none", docs |-> <<>>,
     options |-> [serverSync |-> "default", salt |-> <<>>, name |-> <<>>,
                  expireIn |-> Absent, idFormat |-> Absent],
     token |-> <<>>, salt |-> <<>>, cipherFault |-> FALSE, resp |-> NoResponse,
     request |-> Null, observers |-> <<>>, delivered |-> <<>>,
     outcome |-> "", value |-> <<>>, errType |-> "", events |-> <<>>,
     contacted |-> FALSE, fallback |-> FALSE, lookup |-> Null, decrypted |-> Null]

StoreInit ==
    /\ handlers = <<>>
    /\ expireHandlers = <<>>
    /\ changeHandlers = <<>>
    /\ promises = {}
    /\ location = <<>>
    /\ localStorage = <<>>
    /\ call = NoCall
    /\ now = 0
    /\ storage = EmptyMap
    /\ timers = EmptyMap
    /\ pending = EmptyMap
    /\ nextHandle = 1
    /\ writer = EmptyMap
    /\ obs = [op |-> "none", id |-> <<>>, at |-> 0, ret |-> Null, pre |-> Null,
              preTimer |-> Null, preWriter |-> Null, data |-> Null, ttl |-> 0, h |-> 0]

Set(id, data, ttl) ==
    /\ nextHandle <= MaxTimers
    /\ Install(MemSet(StoreState, id, data, ttl, now))
    /\ Observe("set", id, Null, data, ttl, nextHandle)
    /\ UNCHANGED <<promises, location, localStorage, changeHandlers, expireHandlers, now, handlers, call>>

Get(id) ==
    LET r == MemGet(StoreState, id, now)
    IN  /\ Install(r.st)
        /\ Observe("get", id, r.ret, Null, 0, 0)
        /\ UNCHANGED <<promises, location, localStorage, changeHandlers, expireHandlers, now, handlers, call>>

Has(id) ==
    /\ Observe("has", id, MemHas(StoreState, id), Null, 0, 0)
    /\ UNCHANGED <<promises, location, localStorage, changeHandlers, expireHandlers, now, storage, timers, pending, nextHandle, writer, handlers, call>>

Delete(id) ==
    /\ Install(MemDelete(StoreState, id))
    /\ Observe("delete", id, Null, Null, 0, 0)
    /\ UNCHANGED <<promises, location, localStorage, changeHandlers, expireHandlers, now, handlers, call>>

\* the event loop runs a timer that is due
TimerFire(h) ==
    /\ h \in DOMAIN pending
    /\ pending[h].due <= now
    /\ Install(TimerCallback(StoreState, h))
    /\ Observe("timer", pending[h].id, Null, Null, 0, h)
    /\ UNCHANGED <<promises, location, localStorage, changeHandlers, expireHandlers, now, handlers, call>>

\* time passes; nothing forces a due timer to run first (the event loop may be busy)
Tick ==
    /\ now < MaxTime
    /\ now' = now + 1
    /\ UNCHANGED <<promises, location, localStorage, changeHandlers, expireHandlers, storage, timers, pending, nextHandle, writer, obs, handlers, call>>

StoreNext ==
    \/ \E id \in StoreIds, data \in StoreData, ttl \in TTLs : Set(id, data, ttl)
    \/ \E id \in StoreIds : Get(id)
    \/ \E id \in StoreIds : Has(id)
    \/ \E id \in StoreIds : Delete(id)
    \/ \E h \in 1..MaxTimers : TimerFire(h)
    \/ Tick

SpecStore == StoreInit /\ [][StoreNext]_vars


-----------------------------------------------------------------------------
(* The manager's callers and the answers of its endpoint *)

DocIds == {"a", "b"}

\* the identifier lists of at most MaxLen identifiers
IdLists == UNION {[1..n -> DocIds] : n \in 0..MaxLen}

Salts == {<<>>, <<"s">>}

Names == {<<>>, <<"x">>}

\* options.expireIn and options.idFormat of the manager's callers: not given
ExpireIns == {Absent}

IdFormats == {Absent}

CreateOptions ==
    [serverSync : {"true", "false", "default"}, salt : Salts, name : Names,
     expireIn : ExpireIns, idFormat : IdFormats]

\* the random salts the cipher can draw
CipherSalts == 0..1

Handlers == {"h1"}

\* what the fetch of the create request can settle with
CreateResponses ==
    {Rejected, Answer(400), Answer(500), Answer(200)}
    \cup {Created(id) : id \in GenerateReferenceId}

\* what the fetch of a lookup can settle with
LookupResponses ==
    {Rejected, Answer(404), Answer(500), Answer(200)}
    \cup {Found(d) : d \in IdLists \ {<<>>}}

\* the tokens createRefState returns under serverSync false, each with the
\* list, the salt and the name of its call
Creations ==
    {[docs |-> docIds, salt |-> salt, name |-> name,
      token |-> CreateRefState(docIds, [serverSync |-> "false", salt |-> salt,
                                        name |-> name, expireIn |-> Absent,
                                        idFormat |-> Absent],
                               NoResponse, t, r, FALSE).value] :
        docIds \in IdLists, salt \in Salts, name \in Names, t \in 0..MaxTime,
        r \in CipherSalts}

CreatedTokens == {c.token : c \in Creations}

\* tokens a caller can hand to getDocumentsFromRefState without having created them
CraftedTokens ==
    {<<>>, <<"s">>, <<"c">>, <<":">>, <<"x">>, <<"s", ":">>, <<"c", ":">>,
     <<"s", "p">>, <<"s", ":", "z">>, <<"c", ":", "A">>, <<"A", "%">>}
    \cup {<<"s", ":">> \o id : id \in StoreIds}

\* created tokens that lost their last character on the way
TruncatedTokens == {SubSeq(tok, 1, Len(tok) - 1) : tok \in CreatedTokens}

\* the tokens handed to getDocumentsFromRefState: created ones, as returned, in
\* the legacy form without the marker and truncated, and crafted ones
ResolveTokens ==
    CreatedTokens \cup {Substring(tok, 2) : tok \in CreatedTokens}
    \cup TruncatedTokens \cup CraftedTokens

-----------------------------------------------------------------------------
(* The manager over an endpoint: a call runs to its await of fetch, or to its *)
(* end when it has none; a suspended call resumes when the fetch settles.     *)
(* The caller makes one call at a time and takes its outcome before the next. *)

Init == StoreInit

\* the call's record: its inputs, then what the manager did
Outcome(base, res) ==
    [base EXCEPT
       !.outcome = res.outcome, !.value = res.value, !.errType = res.errType,
       !.events = res.events, !.contacted = res.contacted,
       !.fallback = res.fallback, !.lookup = res.lookup,
       !.decrypted = res.decrypted,
       !.observers = handlers,
       !.delivered = EmitAll(handlers, res.events)]

\* createRefState(docIds, options) is called
CreateRefStateCall(docIds, options, r, cipherFault) ==
    /\ call = NoCall
    /\ call' = Outcome([NoCall EXCEPT !.op = "create", !.docs = docIds,
                                      !.options = options, !.salt = options.salt,
                                      !.cipherFault = cipherFault,
                                      !.request = CreateBody(docIds, options)],
                       CreateRefState(docIds, options, NoResponse, now, r, cipherFault))
    /\ UNCHANGED <<promises, location, localStorage, changeHandlers, expireHandlers, now, storage, timers, pending, nextHandle, writer, obs, handlers>>

\* the fetch of a suspended createRefState settles with resp
CreateRefStateResume(resp, r, cipherFault) ==
    /\ call.outcome = "pending"
    /\ call.op = "create"
    /\ call' = Outcome([call EXCEPT !.resp = resp, !.cipherFault = cipherFault],
                       CreateRefState(call.docs, call.options, resp, now, r, cipherFault))
    /\ UNCHANGED <<promises, location, localStorage, changeHandlers, expireHandlers, now, storage, timers, pending, nextHandle, writer, obs, handlers>>

\* getDocumentsFromRefState(refStateToken, salt) is called
GetDocumentsCall(refStateToken, salt) ==
    /\ call = NoCall
    /\ call' = Outcome([NoCall EXCEPT !.op = "resolve", !.token = refStateToken,
                                      !.salt = salt],
                       GetDocumentsFromRefState(refStateToken, salt, NoResponse))
    /\ UNCHANGED <<promises, location, localStorage, changeHandlers, expireHandlers, now, storage, timers, pending, nextHandle, writer, obs, handlers>>

\* the fetch of a suspended getDocumentsFromRefState settles with resp
GetDocumentsResume(resp) ==
    /\ call.outcome = "pending"
    /\ call.op = "resolve"
    /\ call' = Outcome([call EXCEPT !.resp = resp],
                       GetDocumentsFromRefState(call.token, call.salt, resp))
    /\ UNCHANGED <<promises, location, localStorage, changeHandlers, expireHandlers, now, storage, timers, pending, nextHandle, writer, obs, handlers>>

\* the caller takes the outcome of its call
Return ==
    /\ call.outcome \in {"returned", "thrown"}
    /\ call' = NoCall
    /\ UNCHANGED <<promises, location, localStorage, changeHandlers, expireHandlers, now, storage, timers, pending, nextHandle, writer, obs, handlers>>

\* on(ERROR, h): a Set keeps a handler once, in the order of insertion
On(h) ==
    /\ handlers' = IF \E i \in 1..Len(handlers) : handlers[i] = h
                   THEN handlers ELSE Append(handlers, h)
    /\ UNCHANGED <<promises, location, localStorage, changeHandlers, expireHandlers, now, storage, timers, pending, nextHandle, writer, obs, call>>

\* the function on() returned, called
Off(h) ==
    /\ handlers' = SelectSeq(handlers, LAMBDA x : x # h)
    /\ UNCHANGED <<promises, location, localStorage, changeHandlers, expireHandlers, now, storage, timers, pending, nextHandle, writer, obs, call>>

\* the cipher runs when the client path does: its inputs matter then only
CipherRuns(resp) == resp.kind = "rejected" \/ ~Ok(resp) \/ ~resp.readable

Next ==
    \/ \E docIds \in IdLists, options \in CreateOptions :
         \E cipherFault \in BOOLEAN :
            \E r \in (IF cipherFault THEN {0} ELSE CipherSalts) :
               CreateRefStateCall(docIds, options, r, cipherFault)
    \/ \E resp \in CreateResponses :
         \E cipherFault \in (IF CipherRuns(resp) THEN BOOLEAN ELSE {FALSE}) :
            \E r \in (IF CipherRuns(resp) /\ ~cipherFault THEN CipherSalts ELSE {0}) :
               CreateRefStateResume(resp, r, cipherFault)
    \/ \E refStateToken \in ResolveTokens, salt \in Salts :
         GetDocumentsCall(refStateToken, salt)
    \/ \E resp \in LookupResponses : GetDocumentsResume(resp)
    \/ \E h \in Handlers : On(h)
    \/ \E h \in Handlers : Off(h)
    \/ Return
    \/ Tick

Spec == Init /\ [][Next]_vars

-----------------------------------------------------------------------------
(* The endpoint over its store: requests sent to it directly, and the create *)
(* requests a manager builds from the options of its callers                 *)

\* the bodies of the POSTs sent directly
PostBodies ==
    [documentIds : {NotAnArray, NoDocumentIds, ArrayOf(<<>>)},
     salt : {Absent}, name : {Absent}, expireIn : {Absent}, idFormat : {Absent}]
    \cup
    [documentIds : {ArrayOf(<<"a">>)},
     salt : {Absent}, name : {Absent},
     expireIn : {Absent, Given(0), Given(1), Given(30)}, idFormat : {Absent}]

\* a list long enough for the server path
LongList == [i \in 1..(MaxClientDocs + 1) |-> "b"]

\* the options of the callers whose createRefState takes the server path
ServerPathOptions ==
    [serverSync : {"default"}, salt : {<<"s">>}, name : {<<>>},
     expireIn : {Absent}, idFormat : {Absent, Given("hex")}]

\* no manager built the request
NoOptions ==
    [serverSync |-> "", salt |-> <<>>, name |-> <<>>, expireIn |-> Absent,
     idFormat |-> Absent]

\* the request, the answer and the store before the request was handled
ServerObserve(op, id, request, options, res) ==
    obs' = [op |-> op, id |-> IF op = "POST" /\ ~res.generated THEN <<>> ELSE id,
            at |-> now, request |-> request,
            options |-> options, status |-> res.status, body |-> res.body,
            generated |-> res.generated, format |-> res.format,
            pre |-> MapGet(storage, id), before |-> StoreState]

\* POST basePath with body; referenceId is the id generated if one is
Post(body, referenceId) ==
    LET res == PostHandler(StoreState, body, now, referenceId)
    IN  /\ nextHandle <= MaxTimers
        /\ Install(res.st)
        /\ ServerObserve("POST", referenceId, body, NoOptions, res)
        /\ UNCHANGED <<promises, location, localStorage, changeHandlers, expireHandlers, now, handlers, call>>

\* the POST of a createServerRefState(docIds, options) reaches the endpoint
CreateRequest(docIds, options, referenceId) ==
    LET res == PostHandler(StoreState, CreateBody(docIds, options), now, referenceId)
    IN  /\ nextHandle <= MaxTimers
        /\ Install(res.st)
        /\ ServerObserve("POST", referenceId, CreateBody(docIds, options), options, res)
        /\ UNCHANGED <<promises, location, localStorage, changeHandlers, expireHandlers, now, handlers, call>>

\* GET basePath/id
Retrieve(id) ==
    LET r == GetHandler(StoreState, id, now)
    IN  /\ Install(r.st)
        /\ ServerObserve("GET", id, Null, NoOptions,
                         [status |-> r.status, body |-> r.body, generated |-> FALSE,
                          format |-> ""])
        /\ UNCHANGED <<promises, location, localStorage, changeHandlers, expireHandlers, now, handlers, call>>

ServerNext ==
    \/ \E body \in PostBodies, referenceId \in GenerateReferenceId :
         Post(body, referenceId)
    \/ \E options \in ServerPathOptions, referenceId \in GenerateReferenceId :
         CreateRequest(LongList, options, referenceId)
    \/ \E id \in StoreIds : Retrieve(id)
    \/ \E h \in 1..MaxTimers : TimerFire(h)
    \/ Tick

SpecServer == Init /\ [][ServerNext]_vars

-----------------------------------------------------------------------------
(* The generation of reference ids *)

MaxIdLen == 3   \* the lengths asked of generateRandomString directly

\* DEFAULT_SERVER_OPTIONS.refKeyLength
DefaultRefKeyLength == 20

\* DEFAULT_SERVER_OPTIONS.serverSalt
ServerSalt == <<"s", "a", "l", "t">>

\* the runtime: Node with its crypto module, a browser with window.crypto, or
\* neither
Envs == {"node", "browser", "fallback"}

Formats == {"string", "hex", "base64"}

\* what the random source yields: a short pattern of bytes, repeated
Patterns == {<<0>>, <<251>>, <<255>>, <<18, 171>>, <<4, 16, 65>>}

\* the first n bytes drawn from the source
RandomBytes(pattern, n) == [i \in 1..n |-> pattern[((i - 1) % Len(pattern)) + 1]]

\* the characters of codes 32 to 126, in order
Ascii ==
    <<" ", "!", "\"", "#", "$", "%", "&", "'", "(", ")", "*", "+", ",", "-", ".",
      "/", "0", "1", "2", "3", "4", "5", "6", "7", "8", "9", ":", ";", "<", "=",
      ">", "?", "@", "A", "B", "C", "D", "E", "F", "G", "H", "I", "J", "K", "L",
      "M", "N", "O", "P", "Q", "R", "S", "T", "U", "V", "W", "X", "Y", "Z", "[",
      "backslash", "]", "^", "_", "backquote", "a", "b", "c", "d", "e", "f", "g", "h", "i", "j",
      "k", "l", "m", "n", "o", "p", "q", "r", "s", "t", "u", "v", "w", "x", "y",
      "z", "{", "|", "}", "~">>

AsciiPos == Positions(Ascii)

\* charCodeAt
CharCode(c) == AsciiPos[c] + 31

\* 'ABC...XYZabc...xyz0123456789'
AlnumChars == SubSeq(Ascii, 34, 59) \o SubSeq(Ascii, 66, 91) \o SubSeq(Ascii, 17, 26)

\* the base64 alphabet
Base64Table == AlnumChars \o <<"+", "/">>

HexDigits == SubSeq(Ascii, 17, 26) \o SubSeq(Ascii, 66, 71)

\* b.toString(16).padStart(2, '0')
ToHex2(b) == <<HexDigits[(b \div 16) + 1], HexDigits[(b % 16) + 1]>>

\* s.substring(0, n)
Prefix(s, n) == SubSeq(s, 1, IF n < Len(s) THEN n ELSE Len(s))

RECURSIVE ToBase64(_)
\* toString('base64') and btoa: three bytes to four characters, padded with '='
ToBase64(bytes) ==
    IF Len(bytes) = 0 THEN <<>>
    ELSE IF Len(bytes) = 1
    THEN <<Base64Table[(bytes[1] \div 4) + 1],
           Base64Table[((bytes[1] % 4) * 16) + 1], "=", "=">>
    ELSE IF Len(bytes) = 2
    THEN <<Base64Table[(bytes[1] \div 4) + 1],
           Base64Table[((bytes[1] % 4) * 16) + (bytes[2] \div 16) + 1],
           Base64Table[((bytes[2] % 16) * 4) + 1], "=">>
    ELSE <<Base64Table[(bytes[1] \div 4) + 1],
           Base64Table[((bytes[1] % 4) * 16) + (bytes[2] \div 16) + 1],
           Base64Table[((bytes[2] % 16) * 4) + (bytes[3] \div 64) + 1],
           Base64Table[(bytes[3] % 64) + 1]>>
         \o ToBase64(SubSeq(bytes, 4, Len(bytes)))

RECURSIVE StripPadding(_)
\* replace(/=+$/, '')
StripPadding(s) ==
    IF s # <<>> /\ s[Len(s)] = "=" THEN StripPadding(SubSeq(s, 1, Len(s) - 1)) ELSE s

\* replace(/\+/g, '-').replace(/\//g, '_')
UrlSafe(s) ==
    [i \in 1..Len(s) |-> IF s[i] = "+" THEN "-" ELSE IF s[i] = "/" THEN "_" ELSE s[i]]

\* Math.ceil(length / 2), Math.ceil(length * 3 / 4), length
RequiredBytes(length, format) ==
    IF format = "hex" THEN (length + 1) \div 2
    ELSE IF format = "base64" THEN ((length * 3) + 3) \div 4
    ELSE length

\* generateRandomString(length, format) in the runtime env; first is what the
\* source yields for bytes, again what it yields when Node draws a second time
GenerateRandomString(length, format, env, first, again) ==
    LET requiredBytes == RequiredBytes(length, format)
        bytes == RandomBytes(first, requiredBytes)
    IN  IF format = "hex"
        THEN Prefix(Concat([i \in 1..Len(bytes) |-> ToHex2(bytes[i])]), length)
        ELSE IF format = "base64"
        THEN IF env = "node"
             THEN Prefix(ToBase64(RandomBytes(again, requiredBytes)), length)
             ELSE Prefix(StripPadding(UrlSafe(ToBase64(bytes))), length)
        ELSE [i \in 1..length |->
                 AlnumChars[(bytes[((i - 1) % Len(bytes)) + 1] % Len(AlnumChars)) + 1]]


\* x.toString(16).padStart(4, '0') of a 16-bit x
ToHex4(x) == ToHex2(x \div 256) \o ToHex2(x % 256)

RECURSIVE HashFrom(_, _, _)
\* the loop of simpleHash over the characters s, from the 32-bit hash held as
\* two 16-bit halves: hash = ((hash << 5) - hash) + char; hash |= 0
HashFrom(s, hi, lo) ==
    IF s = <<>> THEN [hi |-> hi, lo |-> lo]
    ELSE LET low == (31 * lo) + CharCode(Head(s))
         IN  HashFrom(Tail(s), ((31 * hi) + (low \div 65536)) % 65536, low % 65536)

\* simpleHash(data, salt): Math.abs(hash).toString(16).padStart(16, '0'), the
\* hash being negative when its top bit is set
SimpleHash(data, salt) ==
    LET h == HashFrom(data \o salt, 0, 0)
        abs == IF h.hi < 32768 THEN h
               ELSE IF h.lo = 0 THEN [hi |-> 65536 - h.hi, lo |-> 0]
               ELSE [hi |-> 65535 - h.hi, lo |-> 65536 - h.lo]
    IN  [i \in 1..8 |-> "0"] \o ToHex4(abs.hi) \o ToHex4(abs.lo)

\* hash.digest('hex') of SHA-256: 32 bytes in hex. The digest is a function of
\* the input; this one spreads the input's simple hash over the 64 digits
Sha256Hex(data, salt) ==
    LET h == HashFrom(data \o salt, 0, 0)
    IN  [i \in 1..64 |-> HexDigits[((h.lo + (i * (h.hi % 16)) + i) % 16) + 1]]

\* createHash(data, salt) in the runtime env; shaFails is Node's hash throwing
CreateHash(data, salt, env, shaFails) ==
    IF env = "node" /\ ~shaFails THEN Sha256Hex(data, salt)
    ELSE SimpleHash(data, salt)

\* generateReferenceId(format, useSalt) of a middleware configured with
\* refKeyLength and serverSalt
GenerateReferenceIdOf(refKeyLength, serverSalt, format, useSalt, env, first, again, shaFails) ==
    LET randomString == GenerateRandomString(refKeyLength, format, env, first, again)
    IN  IF useSalt /\ serverSalt # <<>>
        THEN Prefix(CreateHash(randomString, serverSalt, env, shaFails), refKeyLength)
        ELSE randomString

\* the configured refKeyLength: short ones, the length of the simple hash, and
\* the default
RefKeyLengths == (1..MaxIdLen) \cup {16, DefaultRefKeyLength}

\* a string of the requested length is generated
Generate(length, format, env, first, again) ==
    /\ obs' = [op |-> "generate", length |-> length, format |-> format, env |-> env,
               useSalt |-> FALSE, shaFails |-> FALSE,
               result |-> GenerateRandomString(length, format, env, first, again)]
    /\ UNCHANGED <<promises, location, localStorage, changeHandlers, expireHandlers, now, storage, timers, pending, nextHandle, writer, handlers, call>>

\* a reference id is generated by a middleware configured with refKeyLength
GenerateId(refKeyLength, format, useSalt, env, first, again, shaFails) ==
    /\ obs' = [op |-> "referenceId", length |-> refKeyLength, format |-> format,
               env |-> env, useSalt |-> useSalt, shaFails |-> shaFails,
               result |-> GenerateReferenceIdOf(refKeyLength, ServerSalt, format,
                                                useSalt, env, first, again, shaFails)]
    /\ UNCHANGED <<promises, location, localStorage, changeHandlers, expireHandlers, now, storage, timers, pending, nextHandle, writer, handlers, call>>

\* the second draw matters to Node's base64 only, the hash's failure to a
\* salted id in Node only
SecondDraws(format, env) ==
    IF format = "base64" /\ env = "node" THEN Patterns ELSE {<<0>>}

IdsNext ==
    \/ \E length \in 1..MaxIdLen, format \in Formats, env \in Envs, first \in Patterns :
         \E again \in SecondDraws(format, env) :
            Generate(length, format, env, first, again)
    \/ \E refKeyLength \in RefKeyLengths, format \in Formats, useSalt \in BOOLEAN,
          env \in Envs, first \in Patterns :
         \E again \in SecondDraws(format, env),
            shaFails \in (IF useSalt /\ env = "node" THEN BOOLEAN ELSE {FALSE}) :
            GenerateId(refKeyLength, format, useSalt, env, first, again, shaFails)

SpecIds == Init /\ [][IdsNext]_vars

-----------------------------------------------------------------------------
(* The claims about reference ids, under SpecIds *)

\* the characters of s
CharsOf(s) == {s[i] : i \in 1..Len(s)}

\* C17: generateRandomString(n, format) returns exactly n characters, for
\* base64 none of them '+', '/' or '=', for hex all of them in 0-9a-f, for
\* string all of them in A-Za-z0-9, in every runtime.
C17_IdFormatCoverage ==
    obs.op = "generate" =>
       /\ Len(obs.result) = obs.length
       /\ obs.format = "base64" => CharsOf(obs.result) \cap {"+", "/", "="} = {}
       /\ obs.format = "hex" => CharsOf(obs.result) \subseteq CharsOf(HexDigits)
       /\ obs.format = "string" => CharsOf(obs.result) \subseteq CharsOf(AlnumChars)

\* C18: a salted id has exactly refKeyLength characters, under SHA-256 and
\* under the simple hash.
C18_SaltedIdLength ==
    (obs.op = "referenceId" /\ obs.useSalt) => Len(obs.result) = obs.length

-----------------------------------------------------------------------------
(* A manager over the endpoint and its store: the lookups of server-held    *)
(* references as time passes, with handlers registered for the events       *)

\* the events handed to the handlers of eventType: every emitEvent of the
\* documents' lookup is made with RefStateEventType.ERROR
EmittedAs(eventType, events) == IF eventType = "error" THEN events ELSE <<>>

\* on(EXPIRE, h): a Set keeps a handler once, in the order of insertion
OnExpire(h) ==
    /\ expireHandlers' = IF \E i \in 1..Len(expireHandlers) : expireHandlers[i] = h
                         THEN expireHandlers ELSE Append(expireHandlers, h)
    /\ UNCHANGED <<promises, location, localStorage, changeHandlers, now, storage, timers, pending, nextHandle, writer, obs, handlers, call>>

\* the endpoint's answer to GET basePath/id as fetch() hands it over
LookupAnswer(r) == IF r.status = 200 THEN Found(r.body.documentIds) ELSE Answer(r.status)

\* the references held for the lookups: a TTL of one or of two days
HeldBodies ==
    [documentIds : {ArrayOf(<<"a">>)}, salt : {Absent}, name : {Absent},
     expireIn : {Given(1), Given(2)}, idFormat : {Absent}]

\* getDocumentsFromRefState("s:" + id) with its fetch answered by the endpoint
ResolveHeld(id) ==
    LET r == GetHandler(StoreState, id, now)
        res == GetDocumentsFromRefState(<<"s", ":">> \o id, <<>>, LookupAnswer(r))
    IN  /\ call = NoCall
        /\ Install(r.st)
        /\ call' = Outcome([NoCall EXCEPT !.op = "resolve", !.token = <<"s", ":">> \o id,
                                          !.resp = LookupAnswer(r)], res)
        /\ obs' = [op |-> "resolve", id |-> id, at |-> now, status |-> r.status,
                   pre |-> MapGet(storage, id),
                   expireObservers |-> expireHandlers,
                   expireDelivered |-> EmitAll(expireHandlers,
                                               EmittedAs("expire", res.events))]
        /\ UNCHANGED <<promises, location, localStorage, changeHandlers, now, handlers, expireHandlers>>

EventsNext ==
    \/ \E body \in HeldBodies, referenceId \in GenerateReferenceId :
         Post(body, referenceId)
    \/ \E id \in StoreIds : ResolveHeld(id)
    \/ \E h \in Handlers : On(h)
    \/ \E h \in Handlers : OnExpire(h)
    \/ Return
    \/ \E h \in 1..MaxTimers : TimerFire(h)
    \/ Tick

SpecEvents == Init /\ [][EventsNext]_vars

\* C20: when a resolve of an "s:" token finds the record of its reference past
\* its expiresAt, every handler registered for EXPIRE is invoked.
C20_ExpireEvent ==
    (/\ obs.op = "resolve"
     /\ obs.pre # Null
     /\ obs.pre.expiresAt < obs.at
     /\ obs.status = 404)
    => \A i \in 1..Len(obs.expireObservers) :
          \E j \in 1..Len(obs.expireDelivered) :
             obs.expireDelivered[j].handler = obs.expireObservers[i]

-----------------------------------------------------------------------------
(* The store under callers that race: get(id) has no await, so its body     *)
(* runs in one piece and resolves the promise it returns; the caller takes  *)
(* the result in a later turn, and other callers' calls and the timers run  *)
(* in between.                                                              *)

\* get(id) is called: its body runs and its promise is resolved
GetCall(id) ==
    LET r == MemGet(StoreState, id, now)
    IN  /\ Cardinality(promises) < MaxPromises
        /\ Install(r.st)
        /\ promises' = promises \cup {[id |-> id, ret |-> r.ret]}
        /\ Observe("get", id, r.ret, Null, 0, 0)
        /\ UNCHANGED <<now, handlers, expireHandlers, changeHandlers, location,
                       localStorage, call>>

\* the caller of a get takes its result
GetSettle ==
    \E p \in promises :
       /\ promises' = promises \ {p}
       /\ Observe("got", p.id, p.ret, Null, 0, 0)
       /\ UNCHANGED <<now, storage, timers, pending, nextHandle, writer, handlers,
                      expireHandlers, changeHandlers, location, localStorage, call>>

\* the id the callers race on
RaceIds == {<<"p">>}

RaceNext ==
    \/ \E id \in RaceIds, data \in StoreData, ttl \in TTLs : Set(id, data, ttl)
    \/ \E id \in RaceIds : GetCall(id)
    \/ GetSettle
    \/ \E id \in RaceIds : Delete(id)
    \/ \E h \in 1..MaxTimers : TimerFire(h)
    \/ Tick

SpecRace == StoreInit /\ [][RaceNext]_vars

\* the records set can write
CompleteRecords ==
    {[data |-> d, expiresAt |-> t + ttl] : d \in StoreData, t \in 0..MaxTime, ttl \in TTLs}

\* C23: whatever the interleaving of get, delete and the timers on an id, a get
\* returns the complete record held for the id as set wrote it, or absent: the
\* store never holds, and no caller ever receives, a partly deleted or altered
\* record, and delete and get can always be called.
C23_GetDeleteInterleaving ==
    /\ \A id \in DOMAIN storage : storage[id] \in CompleteRecords
    /\ \A p \in promises : p.ret = Null \/ p.ret \in CompleteRecords
    /\ obs.op = "get" => (obs.ret = Null \/ obs.ret = obs.pre)
    /\ obs.op = "got" => (obs.ret = Null \/ obs.ret \in CompleteRecords)
    /\ \A id \in StoreIds :
          /\ ENABLED Delete(id)
          /\ MemGet(StoreState, id, now).ret \in {Null, MapGet(storage, id)}

\* C23's case: the caller of a get takes the record while a delete that ran
\* after the get's body has removed it from the store
C23_Witness ==
    /\ obs.op = "got"
    /\ obs.ret \in CompleteRecords
    /\ obs.pre = Null
    /\ MapHas(writer, obs.id)

-----------------------------------------------------------------------------
(* Two endpoint adapters, each from its own createRefStateMiddleware call    *)
(* with no storage option.  The store variables of the model are the state   *)
(* of the module's defaultStorage instance.                                  *)

Adapters == {"A", "B"}

\* the options both calls pass: no storage
AdapterOptions == [storage |-> Absent]

\* { ...DEFAULT_SERVER_OPTIONS, ...options }.storage: the instance an adapter uses
MiddlewareStorage(options) == OrDefault(options.storage, "defaultStorage")

\* history: the adapter through which each id was last created
Creators == IF "creators" \in DOMAIN obs THEN obs.creators ELSE EmptyMap

\* the adapter that created id, "" when none did
CreatorOf(id) == IF MapHas(Creators, id) THEN Creators[id] ELSE ""

\* POST basePath with body through adapter
PostVia(adapter, body, referenceId) ==
    LET res == PostHandler(StoreState, body, now, referenceId)
    IN  /\ MiddlewareStorage(AdapterOptions) = "defaultStorage"
        /\ nextHandle <= MaxTimers
        /\ Install(res.st)
        /\ obs' = [op |-> "POST", adapter |-> adapter, id |-> referenceId, at |-> now,
                   status |-> res.status, pre |-> MapGet(storage, referenceId),
                   owner |-> CreatorOf(referenceId),
                   creators |-> MapSet(Creators, referenceId, adapter)]
        /\ UNCHANGED <<now, handlers, expireHandlers, changeHandlers, promises,
                       location, localStorage, call>>

\* GET basePath/id through adapter
RetrieveVia(adapter, id) ==
    LET r == GetHandler(StoreState, id, now)
    IN  /\ MiddlewareStorage(AdapterOptions) = "defaultStorage"
        /\ Install(r.st)
        /\ obs' = [op |-> "GET", adapter |-> adapter, id |-> id, at |-> now,
                   status |-> r.status, pre |-> MapGet(storage, id),
                   owner |-> CreatorOf(id), creators |-> Creators]
        /\ UNCHANGED <<now, handlers, expireHandlers, changeHandlers, promises,
                       location, localStorage, call>>

\* a timer of the store fires; the history is kept
AdapterTimerFire(h) ==
    /\ h \in DOMAIN pending
    /\ pending[h].due <= now
    /\ Install(TimerCallback(StoreState, h))
    /\ obs' = [op |-> "timer", adapter |-> "", id |-> pending[h].id, at |-> now,
               status |-> 0, pre |-> MapGet(storage, pending[h].id),
               owner |-> CreatorOf(pending[h].id), creators |-> Creators]
    /\ UNCHANGED <<now, handlers, expireHandlers, changeHandlers, promises,
                   location, localStorage, call>>

AdaptersNext ==
    \/ \E adapter \in Adapters, body \in HeldBodies, referenceId \in GenerateReferenceId :
         PostVia(adapter, body, referenceId)
    \/ \E adapter \in Adapters, id \in StoreIds : RetrieveVia(adapter, id)
    \/ \E h \in 1..MaxTimers : AdapterTimerFire(h)
    \/ Tick

SpecAdapters == Init /\ [][AdaptersNext]_vars

\* C28: adapters from separate createRefStateMiddleware calls without a storage
\* option share no records: a retrieve through one adapter of an id created
\* through the other is answered 404, and a create through one never
\* overwrites a record created through the other.
C28_StoreIsolation ==
    /\ (obs.op = "GET" /\ obs.owner \notin {"", obs.adapter}) =>
          obs.status = 404
    /\ (obs.op = "POST" /\ obs.status = 200 /\ obs.pre # Null) =>
          obs.owner = obs.adapter

-----------------------------------------------------------------------------
(* The server path end to end: a manager whose fetches are answered by the  *)
(* endpoint over its store, as time passes and the store's timers run       *)

\* the endpoint's answer to POST basePath as fetch() hands it over
CreateAnswer(res) ==
    IF res.status = 200 THEN Created(res.body.referenceId) ELSE Answer(res.status)

\* lists that take the server path: one identifier repeated, and two in an order
ServerLists ==
    {LongList, [i \in 1..(MaxClientDocs + 1) |-> IF i = 1 THEN "a" ELSE "b"]}

\* the options of the creations: the default expiry, one day, thirty days
LifecycleOptions ==
    [serverSync : {"default"}, salt : {<<>>}, name : {<<>>},
     expireIn : {Absent, Given(1), Given(30)}, idFormat : {Absent}]

\* history: the list and the expiry of the reference created under each id
HeldRefs == IF "held" \in DOMAIN obs THEN obs.held ELSE EmptyMap

\* createRefState(docIds, options) with its fetch answered by the endpoint;
\* referenceId is the id the endpoint draws, one it has not drawn before
CreateHeld(docIds, options, referenceId) ==
    LET res == PostHandler(StoreState, CreateBody(docIds, options), now, referenceId)
        out == CreateRefState(docIds, options, CreateAnswer(res), now, 0, FALSE)
    IN  /\ nextHandle <= MaxTimers
        /\ ~MapHas(writer, referenceId)
        /\ Install(res.st)
        /\ call' = Outcome([NoCall EXCEPT !.op = "create", !.docs = docIds,
                                          !.options = options,
                                          !.request = CreateBody(docIds, options),
                                          !.resp = CreateAnswer(res)], out)
        /\ obs' = [op |-> "create", id |-> referenceId, at |-> now,
                   status |-> res.status, salt |-> <<>>,
                   held |-> MapSet(HeldRefs, referenceId,
                                   [docs |-> docIds,
                                    expiresAt |-> res.st.storage[referenceId].expiresAt])]
        /\ UNCHANGED <<now, handlers, expireHandlers, changeHandlers, promises,
                       location, localStorage>>

\* getDocumentsFromRefState("s:" + id, salt) with its fetch answered by the endpoint
ResolveCreated(id, salt) ==
    LET r == GetHandler(StoreState, id, now)
        out == GetDocumentsFromRefState(<<"s", ":">> \o id, salt, LookupAnswer(r))
    IN  /\ Install(r.st)
        /\ call' = Outcome([NoCall EXCEPT !.op = "resolve", !.token = <<"s", ":">> \o id,
                                          !.salt = salt, !.resp = LookupAnswer(r)], out)
        /\ obs' = [op |-> "resolve", id |-> id, at |-> now, status |-> r.status,
                   salt |-> salt, held |-> HeldRefs]
        /\ UNCHANGED <<now, handlers, expireHandlers, changeHandlers, promises,
                       location, localStorage>>

\* a timer of the store fires; the history is kept
LifecycleTimerFire(h) ==
    /\ h \in DOMAIN pending
    /\ pending[h].due <= now
    /\ Install(TimerCallback(StoreState, h))
    /\ obs' = [op |-> "timer", id |-> pending[h].id, at |-> now, status |-> 0,
               salt |-> <<>>, held |-> HeldRefs]
    /\ UNCHANGED <<now, handlers, expireHandlers, changeHandlers, promises,
                   location, localStorage, call>>

LifecycleNext ==
    \/ \E docIds \in ServerLists, options \in LifecycleOptions,
          referenceId \in GenerateReferenceId :
         CreateHeld(docIds, options, referenceId)
    \/ \E id \in StoreIds, salt \in Salts : ResolveCreated(id, salt)
    \/ \E h \in 1..MaxTimers : LifecycleTimerFire(h)
    \/ Tick

SpecLifecycle == Init /\ [][LifecycleNext]_vars

\* C26: a createRefState of more than maxClientDocs identifiers that succeeds
\* on the server path returns "s:" + id; every resolve of that token before the
\* record's expiry returns the list, in order, whatever salt is passed, and
\* every resolve after the expiry rejects with NOT_FOUND.
C26_ServerLifecycle ==
    /\ (obs.op = "create" /\ obs.status = 200) =>
          /\ call.outcome = "returned"
          /\ call.value = <<"s", ":">> \o obs.id
    /\ (obs.op = "resolve" /\ MapHas(obs.held, obs.id)) =>
          /\ obs.at < obs.held[obs.id].expiresAt =>
                /\ call.outcome = "returned"
                /\ call.value = obs.held[obs.id].docs
          /\ obs.at > obs.held[obs.id].expiresAt =>
                /\ call.outcome = "thrown"
                /\ call.errType = "not_found"

-----------------------------------------------------------------------------
(* The manager in a browser page: the 'refstate' parameter of the page's URL *)
(* and localStorage's item 'refstate'.  location holds the values of the     *)
(* URL's 'refstate' parameters as they are written in the query string, in   *)
(* order; localStorage holds the item, or nothing.  The browser's setItem,   *)
(* removeItem and replaceState complete normally.                            *)

\* the serializer of URLSearchParams: a space becomes "+", the characters
\* outside the unreserved set become percent escapes
FormSerialize(s) ==
    Concat([i \in 1..Len(s) |-> IF s[i] = " " THEN <<"+">>
                                ELSE IF s[i] \in DOMAIN EscapeOf THEN EscapeOf[s[i]]
                                ELSE <<s[i]>>])

RECURSIVE FormParseFrom(_, _, _)
\* the parser of URLSearchParams: "+" is a space, a percent escape is its
\* character, a "%" that starts no escape stays
FormParseFrom(s, i, acc) ==
    IF i > Len(s) THEN acc
    ELSE IF s[i] = "+" THEN FormParseFrom(s, i + 1, Append(acc, " "))
    ELSE IF s[i] = "%" /\ i + 2 <= Len(s) /\ SubSeq(s, i, i + 2) \in DOMAIN UnescapeOf
         THEN FormParseFrom(s, i + 3, Append(acc, UnescapeOf[SubSeq(s, i, i + 2)]))
    ELSE FormParseFrom(s, i + 1, Append(acc, s[i]))

FormParse(s) == FormParseFrom(s, 1, <<>>)

\* new URLSearchParams(window.location.search).get('refstate'): the first
\* parameter of that name, parsed, or null
SearchParamsGet(loc) == IF loc = <<>> THEN Absent ELSE Given(FormParse(loc[1]))

\* url.searchParams.set('refstate', value): the first parameter of the name
\* takes the value and the others are removed
SearchParamsSet(loc, value) == <<FormSerialize(value)>>

\* url.searchParams.delete('refstate'): every parameter of the name is removed
SearchParamsDelete(loc) == <<>>

\* getCurrentRefState that looks at localStorage before the URL
GetCurrentRefStateSlotFirst(loc, slot) ==
    LET urlRefState == SearchParamsGet(loc)
    IN  IF slot # Absent /\ slot[1] # <<>>
        THEN [value |-> slot[1], slot |-> slot]
        ELSE IF urlRefState # Absent /\ urlRefState[1] # <<>>
        THEN [value |-> urlRefState[1], slot |-> Given(urlRefState[1])]
        ELSE [value |-> <<>>, slot |-> slot]

\* getCurrentRefState() in a browser: the value it returns and localStorage after it
GetCurrentRefState(loc, slot) ==
    LET urlRefState == SearchParamsGet(loc)
    IN  IF urlRefState # Absent /\ urlRefState[1] # <<>>
        THEN [value |-> urlRefState[1], slot |-> Given(urlRefState[1])]
        ELSE [value |-> OrDefault(slot, <<>>), slot |-> slot]

\* saveRefState that leaves the URL alone
SaveRefStateSlotOnly(refStateToken, updateUrl, loc, slot) ==
    IF refStateToken = <<>>
    THEN [value |-> <<>>, loc |-> loc, slot |-> slot, events |-> <<>>]
    ELSE [value |-> refStateToken, loc |-> loc, slot |-> Given(refStateToken),
          events |-> <<Given(refStateToken)>>]

\* saveRefState(refStateToken, updateUrl) in a browser: the value it returns,
\* the URL and localStorage after it, and the data of the CHANGE events it emits
SaveRefState(refStateToken, updateUrl, loc, slot) ==
    IF refStateToken = <<>>
    THEN [value |-> <<>>, loc |-> loc, slot |-> slot, events |-> <<>>]
    ELSE [value |-> refStateToken,
          loc |-> IF updateUrl THEN SearchParamsSet(loc, refStateToken) ELSE loc,
          slot |-> Given(refStateToken),
          events |-> <<Given(refStateToken)>>]

\* clearRefState() in a browser; the CHANGE event carries null
ClearRefState(loc, slot) ==
    [loc |-> IF loc # <<>> THEN SearchParamsDelete(loc) ELSE loc,
     slot |-> Absent,
     events |-> <<Absent>>]

\* the tokens saved: a server token, a client token with an escaped "+"
BrowserTokens == {<<"s", ":", "p">>, <<"c", ":", "A", "%", "2", "B">>}

\* the 'refstate' parameters of the URL the page is opened with: none, an empty
\* one, a token, a value with a "+", two parameters
InitialLocations ==
    {<<>>, << <<>> >>, <<FormSerialize(<<"s", ":", "p">>)>>, << <<"a", "+", "b">> >>,
     << <<>>, <<"x">> >>}

\* localStorage's item when the page is opened
InitialSlots == {Absent, Given(<<>>), Given(<<"s", ":", "q">>)}

\* history: the last saveRefState of a token or clearRefState, "none" before both
NoSave == [kind |-> "none", token |-> <<>>, updateUrl |-> FALSE]

LastSave == IF "last" \in DOMAIN obs THEN obs.last ELSE NoSave

BrowserInit ==
    /\ handlers = <<>>
    /\ expireHandlers = <<>>
    /\ changeHandlers = <<>>
    /\ promises = {}
    /\ call = NoCall
    /\ now = 0
    /\ storage = EmptyMap
    /\ timers = EmptyMap
    /\ pending = EmptyMap
    /\ nextHandle = 1
    /\ writer = EmptyMap
    /\ location \in InitialLocations
    /\ localStorage \in InitialSlots
    /\ obs = [op |-> "none", last |-> NoSave]

\* what a call of the page-state methods did
BrowserObserve(op, token, updateUrl, value, events, last) ==
    obs' = [op |-> op, token |-> token, updateUrl |-> updateUrl, value |-> value,
            preLocation |-> location, preSlot |-> localStorage,
            observers |-> changeHandlers,
            delivered |-> EmitAll(changeHandlers, events),
            last |-> last]

SaveRefStateCall(refStateToken, updateUrl) ==
    LET r == SaveRefState(refStateToken, updateUrl, location, localStorage)
    IN  /\ location' = r.loc
        /\ localStorage' = r.slot
        /\ BrowserObserve("save", refStateToken, updateUrl, r.value, r.events,
                          IF refStateToken = <<>> THEN LastSave
                          ELSE [kind |-> "save", token |-> refStateToken,
                                updateUrl |-> updateUrl])
        /\ UNCHANGED <<now, storage, timers, pending, nextHandle, writer, handlers,
                       expireHandlers, changeHandlers, promises, call>>

GetCurrentRefStateCall ==
    LET r == GetCurrentRefState(location, localStorage)
    IN  /\ localStorage' = r.slot
        /\ BrowserObserve("get", <<>>, FALSE, r.value, <<>>, LastSave)
        /\ UNCHANGED <<now, storage, timers, pending, nextHandle, writer, handlers,
                       expireHandlers, changeHandlers, promises, location, call>>

ClearRefStateCall ==
    LET r == ClearRefState(location, localStorage)
    IN  /\ location' = r.loc
        /\ localStorage' = r.slot
        /\ BrowserObserve("clear", <<>>, FALSE, <<>>, r.events,
                          [kind |-> "clear", token |-> <<>>, updateUrl |-> FALSE])
        /\ UNCHANGED <<now, storage, timers, pending, nextHandle, writer, handlers,
                       expireHandlers, changeHandlers, promises, call>>

\* on(CHANGE, h)
OnChange(h) ==
    /\ changeHandlers' = IF \E i \in 1..Len(changeHandlers) : changeHandlers[i] = h
                         THEN changeHandlers ELSE Append(changeHandlers, h)
    /\ UNCHANGED <<now, storage, timers, pending, nextHandle, writer, obs, handlers,
                   expireHandlers, promises, location, localStorage, call>>

BrowserNext ==
    \/ \E refStateToken \in BrowserTokens \cup {<<>>}, updateUrl \in BOOLEAN :
         SaveRefStateCall(refStateToken, updateUrl)
    \/ GetCurrentRefStateCall
    \/ ClearRefStateCall
    \/ \E h \in Handlers : OnChange(h)

SpecBrowser == BrowserInit /\ [][BrowserNext]_vars

-----------------------------------------------------------------------------
(* The manager's observers: handlers come and go, some of them throw, and    *)
(* the calls of the manager emit their events to the registered ones         *)

\* the handlers of the callers: h2 throws
ObserverNames == {"h1", "h2"}

\* history: the handlers taken out by the function on() returned and not
\* registered again since
RemovedHandlers == IF "removed" \in DOMAIN obs THEN obs.removed ELSE {}

\* on(ERROR, h)
Subscribe(h) ==
    /\ handlers' = IF \E i \in 1..Len(handlers) : handlers[i] = h
                   THEN handlers ELSE Append(handlers, h)
    /\ obs' = [op |-> "on", at |-> now, removed |-> RemovedHandlers \ {h}]
    /\ UNCHANGED <<now, storage, timers, pending, nextHandle, writer, expireHandlers,
                   changeHandlers, promises, location, localStorage, call>>

\* the function on(ERROR, h) returned, called
Unsubscribe(h) ==
    /\ handlers' = SelectSeq(handlers, LAMBDA x : x # h)
    /\ obs' = [op |-> "off", at |-> now, removed |-> RemovedHandlers \cup {h}]
    /\ UNCHANGED <<now, storage, timers, pending, nextHandle, writer, expireHandlers,
                   changeHandlers, promises, location, localStorage, call>>

\* the tokens resolved: a server token, a damaged client token
ObservedTokens == {<<"s", ":", "p">>, <<"c", ":", "A">>}

\* the options of the creations observed: the server path by default
ObservedOptions ==
    [serverSync : {"default"}, salt : {<<>>}, name : {<<>>}, expireIn : {Absent},
     idFormat : {Absent}]

\* getDocumentsFromRefState(refStateToken, salt) whose fetch, if it makes one,
\* settles with resp
ObservedResolve(refStateToken, resp) ==
    /\ call' = Outcome([NoCall EXCEPT !.op = "resolve", !.token = refStateToken,
                                      !.resp = resp],
                       GetDocumentsFromRefState(refStateToken, <<>>, resp))
    /\ obs' = [op |-> "resolve", at |-> now, removed |-> RemovedHandlers]
    /\ UNCHANGED <<now, storage, timers, pending, nextHandle, writer, handlers,
                   expireHandlers, changeHandlers, promises, location, localStorage>>

\* createRefState(docIds, options) whose fetch settles with resp
ObservedCreate(docIds, options, resp, cipherFault) ==
    /\ call' = Outcome([NoCall EXCEPT !.op = "create", !.docs = docIds,
                                      !.options = options, !.salt = options.salt,
                                      !.cipherFault = cipherFault, !.resp = resp,
                                      !.request = CreateBody(docIds, options)],
                       CreateRefState(docIds, options, resp, now, 0, cipherFault))
    /\ obs' = [op |-> "create", at |-> now, removed |-> RemovedHandlers]
    /\ UNCHANGED <<now, storage, timers, pending, nextHandle, writer, handlers,
                   expireHandlers, changeHandlers, promises, location, localStorage>>

ObserversNext ==
    \/ \E h \in ObserverNames : Subscribe(h)
    \/ \E h \in ObserverNames : Unsubscribe(h)
    \/ \E refStateToken \in ObservedTokens, resp \in LookupResponses \ {NoResponse} :
         ObservedResolve(refStateToken, resp)
    \/ \E options \in ObservedOptions, resp \in CreateResponses,
          cipherFault \in BOOLEAN :
         ObservedCreate(LongList, options, resp, cipherFault)
    \/ Tick

SpecObservers == Init /\ [][ObserversNext]_vars

\* what the call recorded in call does with its inputs, whoever listens
Unobserved ==
    IF call.op = "resolve"
    THEN GetDocumentsFromRefState(call.token, call.salt, call.resp)
    ELSE CreateRefState(call.docs, call.options, call.resp, obs.at, 0, call.cipherFault)

-----------------------------------------------------------------------------
(* The store's claims, under SpecStore *)

NoTimerFor(id) ==
    /\ ~MapHas(timers, id)
    /\ \A h \in DOMAIN pending : pending[h].id # id

\* C5: get(id) at time obs.at returns the stored record if and only if a record
\* is present and its expiresAt is strictly greater than the time of the call;
\* otherwise it returns null and no record is left for id.
C5_GetFreshness ==
    obs.op = "get" =>
        /\ obs.ret = (IF obs.pre # Null /\ obs.pre.expiresAt > obs.at
                      THEN obs.pre ELSE Null)
        /\ (obs.ret = Null => ~MapHas(storage, obs.id))

\* C6: has(id) is true right after set, is true exactly when get(id) at the
\* same instant would return a record, hence false once expiresAt has passed
\* (also while the eviction timer is still pending), and an expired record is
\* deleted by the call.
C6_HasFreshness ==
    obs.op = "has" =>
        /\ obs.ret = (obs.pre # Null /\ ~(obs.pre.expiresAt < obs.at))
        /\ (obs.ret = FALSE => ~MapHas(storage, obs.id))

\* C7: a set stores the record with expiresAt = time of the set + ttl; the
\* timer of an overwritten or deleted record is disarmed, so every armed timer
\* is the one registered for its id, and a timer that fires and removes a
\* record was armed by the set that wrote that record.
C7_OverwriteResetsTimer ==
    /\ obs.op = "set" =>
          MapGet(storage, obs.id) = [data |-> obs.data, expiresAt |-> obs.at + obs.ttl]
    /\ \A h \in DOMAIN pending : MapGet(timers, pending[h].id) = h
    /\ (obs.op = "timer" /\ obs.pre # Null) => obs.h = obs.preWriter

\* C7's case: a record overwritten while its timer was armed, the first
\* deadline passed, the second not, and the second record still stored.
C7_Witness ==
    /\ obs.op = "set"
    /\ obs.pre # Null
    /\ obs.pre.data # obs.data
    /\ obs.at > 0
    /\ obs.pre.expiresAt > obs.at
    /\ obs.pre.expiresAt <= now
    /\ now < obs.at + obs.ttl
    /\ MapGet(storage, obs.id) = [data |-> obs.data, expiresAt |-> obs.at + obs.ttl]

\* C8: delete(id) can always be called, deleting twice is deleting once, and
\* after an explicit delete, a lazy eviction in get or a timer firing, id has
\* neither a record nor a timer, whatever removed it before.
C8_DeleteIdempotent ==
    /\ \A id \in StoreIds :
          /\ ENABLED Delete(id)
          /\ MemDelete(MemDelete(StoreState, id), id) = MemDelete(StoreState, id)
    /\ (obs.op \in {"delete", "timer"} \/ (obs.op = "get" /\ obs.ret = Null)) =>
          /\ ~MapHas(storage, obs.id)
          /\ NoTimerFor(obs.id)

\* C8's case: a delete of an id whose record was already removed
C8_Witness ==
    /\ obs.op = "delete"
    /\ obs.pre = Null
    /\ MapHas(writer, obs.id)
    /\ NoTimerFor(obs.id)

\* C24: no early eviction. For every ttl > 0, also one above the platform
\* timer's largest delay, a record is removed before its expiresAt by a later
\* set or delete only: the eviction timer never removes a record before its
\* expiresAt, get never evicts one before it, and get returns a stored record
\* at every time before its expiresAt.
C24_NoEarlyEviction ==
    /\ (obs.op = "timer" /\ obs.pre # Null) => obs.pre.expiresAt <= obs.at
    /\ (obs.op = "get" /\ obs.pre # Null /\ obs.at < obs.pre.expiresAt) =>
          /\ obs.ret = obs.pre
          /\ MapGet(storage, obs.id) = obs.pre

\* the ids with a pending eviction timer
TimedIds == {pending[h].id : h \in DOMAIN pending}

\* C25: the ids with a pending eviction timer are the ids with a stored record,
\* each id has at most one pending timer, and its deadline is the expiresAt the
\* most recent set gave the record.
C25_TimerRecordCorrespondence ==
    /\ TimedIds = DOMAIN storage
    /\ \A h1, h2 \in DOMAIN pending : pending[h1].id = pending[h2].id => h1 = h2
    /\ \A h \in DOMAIN pending :
          MapHas(storage, pending[h].id) =>
             pending[h].due = storage[pending[h].id].expiresAt

-----------------------------------------------------------------------------
(* The page-state claims, under SpecBrowser *)

\* one invocation of each handler registered for CHANGE, with data
ChangeDelivered(data) ==
    obs.delivered = [i \in 1..Len(obs.observers) |->
                       [handler |-> obs.observers[i], error |-> data]]

\* C21: getCurrentRefState returns the value of the URL's 'refstate' parameter
\* whenever it is present and not empty, whatever localStorage holds; otherwise
\* it returns localStorage's item, or the empty string when there is none.
C21_LoadPrecedence ==
    obs.op = "get" =>
       IF obs.preLocation # <<>> /\ FormParse(obs.preLocation[1]) # <<>>
       THEN obs.value = FormParse(obs.preLocation[1])
       ELSE obs.value = (IF obs.preSlot = Absent THEN <<>> ELSE obs.preSlot[1])

\* C21's case: the URL carries a parameter and localStorage another token
C21_Witness ==
    /\ obs.op = "get"
    /\ obs.preLocation = << <<"a", "+", "b">> >>
    /\ obs.preSlot = Given(<<"s", ":", "q">>)
    /\ obs.value = <<"a", " ", "b">>

C27_MostRecentSaveWins ==
    obs.op = "get" =>
       /\ obs.last.kind = "save" => obs.value = obs.last.token
       /\ obs.last.kind = "clear" => obs.value = <<>>

-----------------------------------------------------------------------------
(* The manager's claims, under Spec *)

\* the call op has run to its end
Settled(op) == call.op = op /\ call.outcome \in {"returned", "thrown"}

\* C1: resolving, with the salt of its creation, a token that createRefState
\* returns for the list L under serverSync false returns exactly L, order and
\* duplicates kept, and emits no ERROR event; and such a creation returns one
\* of these tokens.
C1_ClientRoundTrip ==
    /\ Settled("resolve") =>
          \A c \in Creations :
             (call.token = c.token /\ call.salt = c.salt) =>
                /\ call.outcome = "returned"
                /\ call.value = c.docs
                /\ call.events = <<>>
                /\ call.delivered = <<>>
    /\ (Settled("create") /\ call.options.serverSync = "false" /\ ~call.cipherFault) =>
          /\ call.outcome = "returned"
          /\ \E c \in Creations :
                /\ c.token = call.value
                /\ c.docs = call.docs
                /\ c.salt = call.salt
                /\ c.name = call.options.name

\* a salted token for a list with a duplicate has been resolved to the list
C1_Witness ==
    /\ Settled("resolve")
    /\ \E c \in Creations : c.token = call.token /\ c.docs = <<"a", "a">>
    /\ call.salt = <<"s">>
    /\ call.value = <<"a", "a">>
    /\ call.observers # <<>>

\* C2: createRefState sends the create request if and only if serverSync is not
\* false and the list is longer than maxClientDocs; a call that does not send it
\* and returns, returns a token starting with "c:"; a call whose request is
\* answered 200 with a reference id returns "s:" followed by that id.
C2_PathDecision ==
    call.op = "create" =>
       /\ call.contacted <=>
             (call.options.serverSync # "false" /\ Len(call.docs) > MaxClientDocs)
       /\ ~call.contacted =>
             /\ call.resp = NoResponse
             /\ call.outcome # "pending"
             /\ call.outcome = "returned" => StartsWith(call.value, <<"c", ":">>)
       /\ (call.contacted /\ call.resp.kind = "response" /\ call.resp.status = 200
             /\ call.resp.readable) =>
             /\ call.outcome = "returned"
             /\ call.value = <<"s", ":">> \o call.resp.referenceId

\* exactly maxClientDocs identifiers, serverSync at its default: a client token
C2_Witness ==
    /\ Settled("create")
    /\ Len(call.docs) = MaxClientDocs
    /\ call.options.serverSync = "default"
    /\ ~call.contacted
    /\ StartsWith(call.value, <<"c", ":">>)

\* the fetch of the call failed: rejected, a non-OK status, or an unreadable body
ServerFailed ==
    \/ call.resp.kind = "rejected"
    \/ /\ call.resp.kind = "response"
       /\ (call.resp.status < 200 \/ call.resp.status > 299 \/ ~call.resp.readable)

\* C3: a createRefState whose server path fails returns, unless the encryption
\* itself fails, a "c:" token that resolves with the same salt to the list of
\* the call; and createRefState throws only when the encryption fails.
C3_FallbackAvailability ==
    Settled("create") =>
       /\ (call.contacted /\ ServerFailed /\ ~call.cipherFault) =>
             /\ call.outcome = "returned"
             /\ StartsWith(call.value, <<"c", ":">>)
             /\ LET back == GetDocumentsFromRefState(call.value, call.salt, NoResponse)
                IN  /\ back.outcome = "returned"
                    /\ back.value = call.docs
                    /\ back.events = <<>>
                    /\ ~back.contacted
       /\ call.outcome = "thrown" => (call.cipherFault /\ call.errType = "encryption")

\* the endpoint answered 500 and the call returned a client token
C3_Witness ==
    /\ Settled("create")
    /\ call.contacted
    /\ call.resp = Answer(500)
    /\ call.docs = <<"b", "a">>
    /\ call.salt = <<"s">>
    /\ call.outcome = "returned"
    /\ StartsWith(call.value, <<"c", ":">>)

\* C4 as stated: a createRefState that recovers from a failure of its server
\* path by the client path delivers no ERROR event to the registered observers.
C4_NoErrorEventOnFallback ==
    (Settled("create") /\ call.fallback /\ call.outcome = "returned") =>
       call.delivered = <<>>

\* C4 as amended: a createRefState that recovers from a failure of its server
\* path by the client path delivers exactly one ERROR event, of type NETWORK,
\* to each observer registered when the fetch settles, and still returns the
\* client token.
C4_FallbackDeliversNetworkError ==
    (Settled("create") /\ call.fallback /\ call.outcome = "returned") =>
       /\ call.delivered = [i \in 1..Len(call.observers) |->
                              [handler |-> call.observers[i], error |-> "network"]]
       /\ StartsWith(call.value, <<"c", ":">>)

\* a registered observer received the NETWORK error of a call that returned
C4_Witness ==
    /\ Settled("create")
    /\ call.fallback
    /\ call.outcome = "returned"
    /\ call.observers = <<"h1">>
    /\ call.delivered = <<[handler |-> "h1", error |-> "network"]>>

\* C9: a non-empty token takes exactly one path: one starting with "s:" is
\* looked up under its remainder and never decrypted, one starting with "c:"
\* has its remainder decrypted and no request is sent, any other is decrypted
\* whole and no request is sent.
C9_MarkerDispatch ==
    (call.op = "resolve" /\ call.token # <<>>) =>
       IF StartsWith(call.token, <<"s", ":">>)
       THEN /\ call.lookup = [id |-> Substring(call.token, 2)]
            /\ call.decrypted = Null
            /\ call.contacted
       ELSE /\ call.lookup = Null
            /\ ~call.contacted
            /\ call.resp = NoResponse
            /\ call.outcome # "pending"
            /\ call.decrypted = [ref |-> IF StartsWith(call.token, <<"c", ":">>)
                                         THEN Substring(call.token, 2)
                                         ELSE call.token]

\* a token that starts with "s" but not with "s:" was decrypted whole
C9_Witness ==
    /\ Settled("resolve")
    /\ call.token = <<"s", "p">>
    /\ call.decrypted = [ref |-> <<"s", "p">>]
    /\ call.lookup = Null

\* C10: a lookup answered 404 throws NOT_FOUND; a lookup that is rejected, is
\* answered another non-OK status or has an unreadable body throws NETWORK; a
\* lookup answered 200 returns the identifier list of the answer; the server
\* path returns nothing on a failure.
C10_ServerResolveErrors ==
    (Settled("resolve") /\ call.lookup # Null) =>
       IF call.resp.kind = "response" /\ call.resp.status = 404
       THEN call.outcome = "thrown" /\ call.errType = "not_found"
            /\ call.events = <<"not_found">>
       ELSE IF ServerFailed
       THEN call.outcome = "thrown" /\ call.errType = "network"
            /\ call.events = <<"network">>
       ELSE call.outcome = "returned" /\ call.value = call.resp.documentIds
            /\ call.events = <<>>

\* the lookup of "s:p" was answered 404 and the call threw NOT_FOUND
C10_Witness ==
    /\ Settled("resolve")
    /\ call.token = <<"s", ":", "p">>
    /\ call.lookup = [id |-> <<"p">>]
    /\ call.resp = Answer(404)
    /\ call.outcome = "thrown"
    /\ call.errType = "not_found"

\* the payload ref does not unescape, decrypt under the key of salt, or parse
PayloadFails(ref, salt) ==
    LET decoded == DecodeURIComponent(ref)
        decrypted == IF decoded.ok
                     THEN AESDecrypt(decoded.value, EncryptionKey \o salt)
                     ELSE Failure
    IN  ~decrypted.ok \/ ~JSONParse(decrypted.value).ok

\* the call emitted exactly the error errType, and each observer got it once
OneError(errType) ==
    /\ call.events = <<errType>>
    /\ call.delivered = [i \in 1..Len(call.observers) |->
                           [handler |-> call.observers[i], error |-> errType]]

\* C11: a resolve on the client path whose payload fails to unescape, decrypt
\* or parse returns the empty list, emits exactly one ERROR event of type
\* DECRYPTION and does not throw; a created token resolved with another salt
\* than its own, and a created token that lost its last character, are such
\* payloads.
C11_TamperResistance ==
    (Settled("resolve") /\ call.decrypted # Null) =>
       /\ PayloadFails(call.decrypted.ref, call.salt) =>
             /\ call.outcome = "returned"
             /\ call.value = <<>>
             /\ OneError("decryption")
       /\ (\E c \in Creations : /\ call.token \in {c.token, Substring(c.token, 2)}
                                /\ call.salt # c.salt) =>
             PayloadFails(call.decrypted.ref, call.salt)
       /\ call.token \in TruncatedTokens =>
             PayloadFails(call.decrypted.ref, call.salt)

\* a salted token was resolved without its salt, in front of an observer
C11_Witness ==
    /\ Settled("resolve")
    /\ \E c \in Creations : /\ c.token = call.token
                            /\ c.salt = <<"s">>
                            /\ c.docs = <<"a", "b">>
    /\ call.salt = <<>>
    /\ call.value = <<>>
    /\ call.delivered = <<[handler |-> "h1", error |-> "decryption"]>>

\* C12: getDocumentsFromRefState("") returns the empty list at once: it does
\* not throw, emits no event, sends no request and decrypts nothing.
C12_EmptyTokenNoOp ==
    (call.op = "resolve" /\ call.token = <<>>) =>
       /\ call.outcome = "returned"
       /\ call.value = <<>>
       /\ call.events = <<>>
       /\ call.delivered = <<>>
       /\ ~call.contacted
       /\ call.lookup = Null
       /\ call.resp = NoResponse
       /\ call.decrypted = Null

\* the empty token was resolved, with either salt, in front of an observer
C12_Witness ==
    /\ Settled("resolve")
    /\ call.token = <<>>
    /\ call.salt = <<"s">>
    /\ call.observers = <<"h1">>
    /\ call.value = <<>>

\* every observer registered when the call ended has been invoked with an
\* error of type errType
Delivered(errType) ==
    \A i \in 1..Len(call.observers) :
       \E j \in 1..Len(call.delivered) :
          call.delivered[j] = [handler |-> call.observers[i], error |-> errType]

\* C13: in every state in which a createRefState or getDocumentsFromRefState
\* has thrown, or a resolve on the client path has degraded to the empty list,
\* each registered observer has been invoked with an error of the type thrown
\* (DECRYPTION for the degraded resolve), which is the last error emitted; a
\* call that is still waiting has delivered nothing.
C13_EventsPrecedeOutcome ==
    /\ (call.op \in {"create", "resolve"} /\ call.outcome = "thrown") =>
          /\ call.errType \in {"encryption", "network", "not_found"}
          /\ call.events # <<>>
          /\ call.events[Len(call.events)] = call.errType
          /\ Delivered(call.errType)
    /\ (Settled("resolve") /\ call.decrypted # Null
          /\ PayloadFails(call.decrypted.ref, call.salt)) =>
          Delivered("decryption")
    /\ call.outcome = "pending" => call.delivered = <<>>

\* a lookup answered 404 threw NOT_FOUND after the observer had received it
C13_Witness ==
    /\ Settled("resolve")
    /\ call.outcome = "thrown"
    /\ call.errType = "not_found"
    /\ call.observers = <<"h1">>
    /\ call.delivered = <<[handler |-> "h1", error |-> "not_found"]>>

-----------------------------------------------------------------------------
(* The endpoint's claims, under SpecServer *)

\* C14: a POST whose documentIds is not an array or is an empty array is
\* answered 400, generates no id and leaves records and timers as they were; a
\* POST with a non-empty array is answered 200 with {referenceId, expiresAt},
\* the record under referenceId holds those documentIds, and no other record
\* changes.
C14_CreateValidation ==
    obs.op = "POST" =>
       IF ~IsArray(obs.request.documentIds) \/ obs.request.documentIds.items = <<>>
       THEN /\ obs.status = 400
            /\ ~obs.generated
            /\ StoreState = obs.before
       ELSE /\ obs.status = 200
            /\ obs.generated
            /\ DOMAIN obs.body = {"referenceId", "expiresAt"}
            /\ obs.body.referenceId = obs.id
            /\ MapHas(storage, obs.id)
            /\ storage[obs.id].data.documentIds = obs.request.documentIds.items
            /\ \A id \in (DOMAIN storage \cup DOMAIN obs.before.storage) \ {obs.id} :
                  MapGet(storage, id) = MapGet(obs.before.storage, id)

\* an empty array was refused while the store held a record
C14_Witness ==
    /\ obs.op = "POST"
    /\ obs.request.documentIds = ArrayOf(<<>>)
    /\ obs.status = 400
    /\ storage # EmptyMap
    /\ storage = obs.before.storage

\* C15: a GET for id is answered 404 if and only if the store held no record
\* for id whose expiresAt is later than the time of the request; otherwise it
\* is answered with the documentIds, name, createdAt and expiresAt stored by
\* the last set for id.
C15_RetrieveFreshness ==
    obs.op = "GET" =>
       /\ obs.status = 404 <=> ~(obs.pre # Null /\ obs.pre.expiresAt > obs.at)
       /\ obs.status # 404 =>
             /\ obs.status = 200
             /\ obs.body = [documentIds |-> obs.pre.data.documentIds,
                            name |-> obs.pre.data.name,
                            createdAt |-> obs.pre.data.createdAt,
                            expiresAt |-> obs.pre.expiresAt]

\* C16: a POST that is answered 200 stores its record with expiresAt equal to
\* the time of the request plus the expireIn of the body, whatever its value,
\* and answers with that expiresAt; defaultExpiration is used only for a body
\* without expireIn.
C16_RequestedExpiryHonoured ==
    (obs.op = "POST" /\ obs.status = 200) =>
       LET ttl == IF obs.request.expireIn = Absent THEN DefaultExpiration
                  ELSE obs.request.expireIn[1]
       IN  /\ MapHas(storage, obs.id)
           /\ storage[obs.id].expiresAt = obs.at + ttl
           /\ obs.body.expiresAt = obs.at + ttl

\* C19: the id of a create request that a manager built from options with an
\* idFormat is generated in that format.
C19_IdFormatOverride ==
    (obs.op = "POST" /\ obs.generated /\ obs.options # NoOptions
       /\ obs.options.idFormat # Absent) =>
       obs.format = obs.options.idFormat[1]

=============================================================================
